---- MODULE Spec2Model ----
(***************************************************************************)
(* A model of the Uptime Robot client library: the Monitor wire codec, the *)
(* MakeAPICall request envelope, the operations built on it, the           *)
(* AllMonitors pagination loop and the EnsureMonitor find-or-create.       *)
(*                                                                         *)
(* Text is modelled as a sequence of one-character strings, so that        *)
(* concatenation, joining and parsing are computed and not assumed.        *)
(***************************************************************************)
EXTENDS Integers, Sequences, FiniteSets, TLC

(***************************************************************************)
(* Bounds of the model.                                                    *)
(***************************************************************************)
\* largest number of monitors the paging backend holds
MaxTotal == 151

\* number of concurrent callers of EnsureMonitor
NumProcs == 2

\* number of EnsureMonitor calls the callers make in all
MaxCalls == 3

(***************************************************************************)
(* Program constants.                                                      *)
(***************************************************************************)
\* net/http StatusOK, the only status MakeAPICall accepts
StatusOK == 200

\* the page size AllMonitors asks for
PageLimit == 50

StatusPaused == 0

StatusResumed == 1

TypeHTTP == 1

(***************************************************************************)
(* JSON values.  k is the JSON type, n the value of a number, s the value  *)
(* of a string, l the value of a list of strings, a the items of any other *)
(* array, o the members of an object.  The n of JNum is an integer of at   *)
(* most 2147483647 in magnitude; an integer beyond is a JWide.             *)
(***************************************************************************)
JStr(s) == [k |-> "str", n |-> 0, s |-> s, l |-> <<>>, a |-> <<>>, o |-> <<>>]

JNum(n) == [k |-> "num", n |-> n, s |-> <<>>, l |-> <<>>, a |-> <<>>, o |-> <<>>]

JBool(b) == [k |-> "bool", n |-> (IF b THEN 1 ELSE 0), s |-> <<>>, l |-> <<>>, a |-> <<>>, o |-> <<>>]

JNull == [k |-> "null", n |-> 0, s |-> <<>>, l |-> <<>>, a |-> <<>>, o |-> <<>>]

JList(l) == [k |-> "list", n |-> 0, s |-> <<>>, l |-> l, a |-> <<>>, o |-> <<>>]

\* an integer beyond 2147483647 in magnitude, as json.Marshal writes an int:
\* w is its sign, if any, and its digits
JWide(w) == [k |-> "int", n |-> 0, s |-> w, l |-> <<>>, a |-> <<>>, o |-> <<>>]

\* an integer above 2^53: JBig(d) is the number 2^53 + d, for d >= 0
JBig(d) == [k |-> "big", n |-> d, s |-> <<>>, l |-> <<>>, a |-> <<>>, o |-> <<>>]

\* a number read from text that is not an integer of at most nine digits:
\* the float64 nearest to 0.d * 10^e, negated when neg; d has neither
\* leading nor trailing zeros, and is "0" with e = 0 for minus zero
JFloat(neg, d, e) ==
  [k |-> "float", n |-> e, s |-> (IF neg THEN <<"-">> ELSE <<>>) \o d, l |-> <<>>, a |-> <<>>, o |-> <<>>]

JItems(items) == [k |-> "array", n |-> 0, s |-> <<>>, l |-> <<>>, a |-> items, o |-> <<>>]

JObject(members) == [k |-> "object", n |-> 0, s |-> <<>>, l |-> <<>>, a |-> <<>>, o |-> members]

\* a JSON object is a function from its keys, which are texts, to JSON
\* values
EmptyObj == [x \in {} |-> JNull]

Put(obj, key, v) == [x \in (DOMAIN obj) \cup {key} |-> IF x = key THEN v ELSE obj[x]]

Has(obj, key) == key \in DOMAIN obj

(***************************************************************************)
(* Text helpers.                                                           *)
(***************************************************************************)
Txt_json == <<"j", "s", "o", "n">>

\* the names of the members of the JSON objects: the tags of the Monitor
\* struct and the parameters of the requests
Txt_id == <<"i", "d">>

Txt_friendly_name == <<"f", "r", "i", "e", "n", "d", "l", "y", "_", "n", "a", "m", "e">>

Txt_url == <<"u", "r", "l">>

Txt_type == <<"t", "y", "p", "e">>

Txt_sub_type == <<"s", "u", "b", "_", "t", "y", "p", "e">>

Txt_keyword_type == <<"k", "e", "y", "w", "o", "r", "d", "_", "t", "y", "p", "e">>

Txt_port == <<"p", "o", "r", "t">>

Txt_keyword_value == <<"k", "e", "y", "w", "o", "r", "d", "_", "v", "a", "l", "u", "e">>

Txt_alert_contacts == <<"a", "l", "e", "r", "t", "_", "c", "o", "n", "t", "a", "c", "t", "s">>

Txt_status == <<"s", "t", "a", "t", "u", "s">>

Txt_api_key == <<"a", "p", "i", "_", "k", "e", "y">>

Txt_format == <<"f", "o", "r", "m", "a", "t">>

Txt_monitors == <<"m", "o", "n", "i", "t", "o", "r", "s">>

Txt_logs == <<"l", "o", "g", "s">>

Txt_limit == <<"l", "i", "m", "i", "t">>

Txt_offset == <<"o", "f", "f", "s", "e", "t">>

Txt_search == <<"s", "e", "a", "r", "c", "h">>

Quote == "\""

HasQuote(s) == \E i \in 1..Len(s) : s[i] = Quote

\* s occurs in t as a contiguous substring
Contains(t, s) == \E i \in 0..(Len(t) - Len(s)) : SubSeq(t, i + 1, i + Len(s)) = s

(***************************************************************************)
(* Monitor and Response values.                                            *)
(***************************************************************************)
Mon(id, name, url, contacts) ==
  [ID |-> id, FriendlyName |-> name, URL |-> url, Type |-> TypeHTTP,
   SubType |-> 0, KeywordType |-> 0, Port |-> 0, KeywordValue |-> <<>>,
   AlertContacts |-> contacts, Status |-> 0]

ZeroMonitor ==
  [ID |-> 0, FriendlyName |-> <<>>, URL |-> <<>>, Type |-> 0,
   SubType |-> 0, KeywordType |-> 0, Port |-> 0, KeywordValue |-> <<>>,
   AlertContacts |-> <<>>, Status |-> 0]

\* An int field of a Monitor that is beyond 2147483647 in magnitude is held
\* in a further field, Wide, that maps the name of the field to the sign and
\* the digits of the integer; the field itself is 0 then.  An int is the
\* record of v, the integer, and w, empty, or of 0 and the sign and digits.
IntFields == {"ID", "Type", "SubType", "KeywordType", "Port", "Status"}

SmallInt(n) == [v |-> n, w |-> <<>>]

WideInt(neg, d) == [v |-> 0, w |-> (IF neg THEN <<"-">> ELSE <<>>) \o d]

WideOf(m) == IF "Wide" \in DOMAIN m THEN m.Wide ELSE [f \in {} |-> <<>>]

IntField(m, f) ==
  IF f \in DOMAIN WideOf(m) THEN [v |-> 0, w |-> WideOf(m)[f]] ELSE SmallInt(m[f])

\* the Monitor m with the int i in the field f
WithInt(m, f, i) ==
  LET wide == [g \in ((DOMAIN WideOf(m)) \ {f}) \cup (IF i.w = <<>> THEN {} ELSE {f}) |->
                 IF g = f THEN i.w ELSE WideOf(m)[g]]
  IN [x \in ((DOMAIN m) \ {"Wide"}) \cup (IF DOMAIN wide = {} THEN {} ELSE {"Wide"}) |->
        IF x = "Wide" THEN wide ELSE IF x = f THEN i.v ELSE m[x]]

ZeroPagination == [Offset |-> 0, Limit |-> 0, Total |-> 0]

\* Response{}: Error "none" is the nil Error map, Account 0 the empty Account
ZeroResponse ==
  [Stat |-> "", Account |-> 0, Monitors |-> <<>>, Monitor |-> ZeroMonitor,
   AlertContacts |-> <<>>, Error |-> "none", Pagination |-> ZeroPagination]

(***************************************************************************)
(* Errors.  kind "nil" is the nil error.                                   *)
(***************************************************************************)
Err(kind) == [kind |-> kind, status |-> 0, payload |-> "none"]

NoErr == Err("nil")

StatusErr(status) == [kind |-> "status", status |-> status, payload |-> "none"]

APIErr(payload) == [kind |-> "api", status |-> 0, payload |-> payload]

(***************************************************************************)
(* Request data handed to MakeAPICall: empty ([]byte{}), a JSON object,    *)
(* the JSON literal null, or anything else (text that is not JSON, or      *)
(* JSON that is not an object).                                            *)
(***************************************************************************)
EmptyData == [kind |-> "empty", obj |-> EmptyObj]

ObjData(obj) == [kind |-> "object", obj |-> obj]

NullData == [kind |-> "null", obj |-> EmptyObj]

InvalidData == [kind |-> "invalid", obj |-> EmptyObj]

(***************************************************************************)
(* Monitor.MarshalJSON.                                                    *)
(***************************************************************************)
RECURSIVE Join(_, _)
Join(items, sep) ==
  IF Len(items) = 0 THEN <<>>
  ELSE IF Len(items) = 1 THEN items[1]
  ELSE items[1] \o sep \o Join(Tail(items), sep)

Suffix_0_0 == <<"_", "0", "_", "0">>

\* a contact list that joins the IDs and appends the marker once
buildAlertContactList_SuffixOnce(contactIDs) ==
  IF Len(contactIDs) = 0 THEN <<>> ELSE Join(contactIDs, <<"-">>) \o Suffix_0_0

buildAlertContactList(contactIDs) ==
  Join([i \in 1..Len(contactIDs) |-> contactIDs[i] \o Suffix_0_0], <<"-">>)

(***************************************************************************)
(* strconv.Itoa / strconv.Atoi and fmt's %d.  An int of the program that   *)
(* may be beyond 2147483647 in magnitude is the record of v and w: the     *)
(* integer and nothing, or 0 and the sign and the decimal digits.          *)
(***************************************************************************)
Digits == <<"0", "1", "2", "3", "4", "5", "6", "7", "8", "9">>

IsDigit(c) == \E d \in 1..10 : Digits[d] = c

DigitVal(c) == (CHOOSE d \in 1..10 : Digits[d] = c) - 1

RECURSIVE ItoaNat(_)
ItoaNat(n) == IF n < 10 THEN <<Digits[n + 1]>> ELSE ItoaNat(n \div 10) \o <<Digits[(n % 10) + 1]>>

Itoa(n) == IF n < 0 THEN <<"-">> \o ItoaNat(0 - n) ELSE ItoaNat(n)

\* %d and strconv.Itoa of an int that may be beyond 2147483647: all its digits
FormatInt(i) == IF i.w = <<>> THEN Itoa(i.v) ELSE i.w

RECURSIVE DigitsVal(_)
DigitsVal(s) == IF Len(s) = 0 THEN 0 ELSE 10 * DigitsVal(SubSeq(s, 1, Len(s) - 1)) + DigitVal(s[Len(s)])

AllDigits(s) == Len(s) > 0 /\ \A i \in 1..Len(s) : IsDigit(s[i])

StripLeadingZeros(d) ==
  LET j == CHOOSE j \in 1..(Len(d) + 1) :
              (\A k \in 1..(j - 1) : d[k] = "0") /\ (j > Len(d) \/ d[j] # "0")
  IN SubSeq(d, j, Len(d))

StripTrailingZeros(d) ==
  LET j == CHOOSE j \in 0..Len(d) :
              (\A k \in (j + 1)..Len(d) : d[k] = "0") /\ (j = 0 \/ d[j] # "0")
  IN SubSeq(d, 1, j)

DigitAt(d, i) == IF i <= Len(d) THEN DigitVal(d[i]) ELSE 0

\* 0.d >= 0.l for the digit sequences d and l
DigitsAtLeast(d, l) ==
  LET n == IF Len(d) > Len(l) THEN Len(d) ELSE Len(l)
      differ == {i \in 1..n : DigitAt(d, i) # DigitAt(l, i)}
      first == CHOOSE i \in differ : \A j \in differ : i <= j
  IN differ = {} \/ DigitAt(d, first) > DigitAt(l, first)

\* the digits of 2^0, 2^1, ..., 2^64
Pow2Digits ==
  <<<<"1">>, <<"2">>, <<"4">>, <<"8">>, <<"1", "6">>, <<"3", "2">>, <<"6", "4">>, <<"1",
     "2", "8">>, <<"2", "5", "6">>, <<"5", "1", "2">>, <<"1", "0", "2", "4">>, <<"2", "0",
     "4", "8">>, <<"4", "0", "9", "6">>, <<"8", "1", "9", "2">>, <<"1", "6", "3", "8",
     "4">>, <<"3", "2", "7", "6", "8">>, <<"6", "5", "5", "3", "6">>, <<"1", "3", "1", "0",
     "7", "2">>, <<"2", "6", "2", "1", "4", "4">>, <<"5", "2", "4", "2", "8", "8">>, <<"1",
     "0", "4", "8", "5", "7", "6">>, <<"2", "0", "9", "7", "1", "5", "2">>, <<"4", "1",
     "9", "4", "3", "0", "4">>, <<"8", "3", "8", "8", "6", "0", "8">>, <<"1", "6", "7",
     "7", "7", "2", "1", "6">>, <<"3", "3", "5", "5", "4", "4", "3", "2">>, <<"6", "7",
     "1", "0", "8", "8", "6", "4">>, <<"1", "3", "4", "2", "1", "7", "7", "2", "8">>,
     <<"2", "6", "8", "4", "3", "5", "4", "5", "6">>, <<"5", "3", "6", "8", "7", "0", "9",
     "1", "2">>, <<"1", "0", "7", "3", "7", "4", "1", "8", "2", "4">>, <<"2", "1", "4",
     "7", "4", "8", "3", "6", "4", "8">>, <<"4", "2", "9", "4", "9", "6", "7", "2", "9",
     "6">>, <<"8", "5", "8", "9", "9", "3", "4", "5", "9", "2">>, <<"1", "7", "1", "7",
     "9", "8", "6", "9", "1", "8", "4">>, <<"3", "4", "3", "5", "9", "7", "3", "8", "3",
     "6", "8">>, <<"6", "8", "7", "1", "9", "4", "7", "6", "7", "3", "6">>, <<"1", "3",
     "7", "4", "3", "8", "9", "5", "3", "4", "7", "2">>, <<"2", "7", "4", "8", "7", "7",
     "9", "0", "6", "9", "4", "4">>, <<"5", "4", "9", "7", "5", "5", "8", "1", "3", "8",
     "8", "8">>, <<"1", "0", "9", "9", "5", "1", "1", "6", "2", "7", "7", "7", "6">>,
     <<"2", "1", "9", "9", "0", "2", "3", "2", "5", "5", "5", "5", "2">>, <<"4", "3", "9",
     "8", "0", "4", "6", "5", "1", "1", "1", "0", "4">>, <<"8", "7", "9", "6", "0", "9",
     "3", "0", "2", "2", "2", "0", "8">>, <<"1", "7", "5", "9", "2", "1", "8", "6", "0",
     "4", "4", "4", "1", "6">>, <<"3", "5", "1", "8", "4", "3", "7", "2", "0", "8", "8",
     "8", "3", "2">>, <<"7", "0", "3", "6", "8", "7", "4", "4", "1", "7", "7", "6", "6",
     "4">>, <<"1", "4", "0", "7", "3", "7", "4", "8", "8", "3", "5", "5", "3", "2", "8">>,
     <<"2", "8", "1", "4", "7", "4", "9", "7", "6", "7", "1", "0", "6", "5", "6">>, <<"5",
     "6", "2", "9", "4", "9", "9", "5", "3", "4", "2", "1", "3", "1", "2">>, <<"1", "1",
     "2", "5", "8", "9", "9", "9", "0", "6", "8", "4", "2", "6", "2", "4">>, <<"2", "2",
     "5", "1", "7", "9", "9", "8", "1", "3", "6", "8", "5", "2", "4", "8">>, <<"4", "5",
     "0", "3", "5", "9", "9", "6", "2", "7", "3", "7", "0", "4", "9", "6">>, <<"9", "0",
     "0", "7", "1", "9", "9", "2", "5", "4", "7", "4", "0", "9", "9", "2">>, <<"1", "8",
     "0", "1", "4", "3", "9", "8", "5", "0", "9", "4", "8", "1", "9", "8", "4">>, <<"3",
     "6", "0", "2", "8", "7", "9", "7", "0", "1", "8", "9", "6", "3", "9", "6", "8">>,
     <<"7", "2", "0", "5", "7", "5", "9", "4", "0", "3", "7", "9", "2", "7", "9", "3",
     "6">>, <<"1", "4", "4", "1", "1", "5", "1", "8", "8", "0", "7", "5", "8", "5", "5",
     "8", "7", "2">>, <<"2", "8", "8", "2", "3", "0", "3", "7", "6", "1", "5", "1", "7",
     "1", "1", "7", "4", "4">>, <<"5", "7", "6", "4", "6", "0", "7", "5", "2", "3", "0",
     "3", "4", "2", "3", "4", "8", "8">>, <<"1", "1", "5", "2", "9", "2", "1", "5", "0",
     "4", "6", "0", "6", "8", "4", "6", "9", "7", "6">>, <<"2", "3", "0", "5", "8", "4",
     "3", "0", "0", "9", "2", "1", "3", "6", "9", "3", "9", "5", "2">>, <<"4", "6", "1",
     "1", "6", "8", "6", "0", "1", "8", "4", "2", "7", "3", "8", "7", "9", "0", "4">>,
     <<"9", "2", "2", "3", "3", "7", "2", "0", "3", "6", "8", "5", "4", "7", "7", "5", "8",
     "0", "8">>, <<"1", "8", "4", "4", "6", "7", "4", "4", "0", "7", "3", "7", "0", "9",
     "5", "5", "1", "6", "1", "6">>>>

\* the digits d without leading zeros: "0" for zero
Norm(d) == IF Len(StripLeadingZeros(d)) = 0 THEN <<"0">> ELSE StripLeadingZeros(d)

Zeros(n) == [j \in 1..n |-> "0"]

\* the digits d with zeros before them, w digits in all
Pad(d, w) == Zeros(w - Len(d)) \o d

\* -1, 0 or 1 as d is below, equal to or above l, for digits without
\* leading zeros
CmpDigits(d, l) ==
  LET differ == {i \in 1..Len(d) : d[i] # l[i]}
      first == CHOOSE i \in differ : \A j \in differ : i <= j
  IN IF Len(d) < Len(l) THEN 0 - 1
     ELSE IF Len(d) > Len(l) THEN 1
     ELSE IF differ = {} THEN 0
     ELSE IF DigitVal(d[first]) < DigitVal(l[first]) THEN 0 - 1
     ELSE 1

LastDigit(d) == IF Len(d) = 0 THEN 0 ELSE DigitVal(d[Len(d)])

Front(d) == IF Len(d) = 0 THEN d ELSE SubSeq(d, 1, Len(d) - 1)

RECURSIVE AddDigits(_, _, _)
\* a + b + c, for the carry c
AddDigits(a, b, c) ==
  LET digit(v) == AddDigits(Front(a), Front(b), v \div 10) \o <<Digits[(v % 10) + 1]>>
  IN IF Len(a) = 0 /\ Len(b) = 0 THEN (IF c = 0 THEN <<>> ELSE <<Digits[c + 1]>>)
     ELSE digit(LastDigit(a) + LastDigit(b) + c)

RECURSIVE SubDigits(_, _, _)
\* a - b - c, for the borrow c and a >= b + c, in Len(a) digits
SubDigits(a, b, c) ==
  LET digit(v) ==
        IF v < 0 THEN SubDigits(Front(a), Front(b), 1) \o <<Digits[v + 11]>>
        ELSE SubDigits(Front(a), Front(b), 0) \o <<Digits[v + 1]>>
  IN IF Len(a) = 0 THEN <<>> ELSE digit(LastDigit(a) - LastDigit(b) - c)

RECURSIVE ModDigits(_, _)
\* d modulo m
ModDigits(d, m) == IF Len(d) = 0 THEN 0 ELSE (10 * ModDigits(Front(d), m) + LastDigit(d)) % m

\* 2^n in digits, for n from 0 to 64
Pow2(n) == Pow2Digits[n + 1]

\* the int with the sign neg and the digits d, which have no leading zeros
Int64(neg, d) ==
  IF Len(d) <= 9 \/ (Len(d) = 10 /\ CmpDigits(d, <<"2", "1", "4", "7", "4", "8", "3", "6", "4", "7">>) <= 0)
  THEN SmallInt(IF neg THEN 0 - DigitsVal(d) ELSE DigitsVal(d))
  ELSE WideInt(neg, d)

\* the JSON number json.Marshal writes for the int i
JInt(i) == IF i.w = <<>> THEN JNum(i.v) ELSE JWide(i.w)

\* the digits of 2^63 - 1, the largest int
MaxInt64 ==
  <<"9", "2", "2", "3", "3", "7", "2", "0", "3", "6", "8", "5", "4", "7", "7", "5", "8", "0", "7">>

\* strconv.Atoi: an optional sign and at least one decimal digit, of a
\* number an int holds (from -2^63 to 2^63 - 1); v and w are the int
Atoi(s) ==
  LET fail == [ok |-> FALSE, v |-> 0, w |-> <<>>]
      limit(neg) == IF neg THEN AddDigits(MaxInt64, <<>>, 1) ELSE MaxInt64
      int(i) == [ok |-> TRUE, v |-> i.v, w |-> i.w]
      number(neg, d) ==
        IF ~AllDigits(d) THEN fail
        ELSE IF Len(Norm(d)) > 18 /\ CmpDigits(Norm(d), limit(neg)) > 0 THEN fail
        ELSE int(Int64(neg, Norm(d)))
  IN IF Len(s) > 0 /\ s[1] = "-" THEN number(TRUE, Tail(s))
     ELSE IF Len(s) > 0 /\ s[1] = "+" THEN number(FALSE, Tail(s))
     ELSE number(FALSE, s)

(***************************************************************************)
(* encoding/json on request data.  json.Unmarshal first checks that the    *)
(* whole text is one JSON value between white space, then decodes it; into *)
(* a map[string]interface{} an object decodes to its members (the last of  *)
(* several members with one key wins), every number to a float64.          *)
(*                                                                         *)
(* A character of a text is a one-character string.  A character a string  *)
(* of this notation cannot hold, that is a control character other than    *)
(* tab, line feed, form feed and carriage return, the grave accent, or a   *)
(* character outside ASCII, is written U+ and its code point in            *)
(* hexadecimal.                                                            *)
(***************************************************************************)
Printable ==
  <<" ", "!", "\"", "#", "$", "%", "&", "'", "(", ")", "*", "+",
     ",", "-", ".", "/", "0", "1", "2", "3", "4", "5", "6", "7",
     "8", "9", ":", ";", "<", "=", ">", "?", "@", "A", "B", "C",
     "D", "E", "F", "G", "H", "I", "J", "K", "L", "M", "N", "O",
     "P", "Q", "R", "S", "T", "U", "V", "W", "X", "Y", "Z", "[",
     "\\", "]", "^", "_", "U+0060", "a", "b", "c", "d", "e", "f", "g",
     "h", "i", "j", "k", "l", "m", "n", "o", "p", "q", "r", "s",
     "t", "u", "v", "w", "x", "y", "z", "{", "|", "}", "~">>

ControlChars ==
  <<"U+0000", "U+0001", "U+0002", "U+0003", "U+0004", "U+0005", "U+0006", "U+0007",
     "U+0008", "\t", "\n", "U+000B", "\f", "\r", "U+000E", "U+000F",
     "U+0010", "U+0011", "U+0012", "U+0013", "U+0014", "U+0015", "U+0016", "U+0017",
     "U+0018", "U+0019", "U+001A", "U+001B", "U+001C", "U+001D", "U+001E", "U+001F">>

HexUpper == <<"0", "1", "2", "3", "4", "5", "6", "7", "8", "9", "A", "B", "C", "D", "E", "F">>

HexLower == <<"0", "1", "2", "3", "4", "5", "6", "7", "8", "9", "a", "b", "c", "d", "e", "f">>

IsHex(c) == \E d \in 1..16 : HexUpper[d] = c \/ HexLower[d] = c

HexVal(c) == (CHOOSE d \in 1..16 : HexUpper[d] = c \/ HexLower[d] = c) - 1

RECURSIVE HexText(_, _)
\* the code point n in hexadecimal, with at least w digits
HexText(n, w) ==
  IF n < 16 /\ w <= 1 THEN HexUpper[n + 1]
  ELSE HexText(n \div 16, w - 1) \o HexUpper[(n % 16) + 1]

\* the character with code point n
Chr(n) ==
  IF n < 32 THEN ControlChars[n + 1]
  ELSE IF n < 127 THEN Printable[n - 31]
  ELSE "U+" \o HexText(n, 4)

\* a character below U+0020, which a JSON string cannot hold unescaped
IsControl(c) == \E n \in 1..32 : ControlChars[n] = c

IsSpace(c) == c \in {" ", "\t", "\r", "\n"}

\* the index of the first character of t from i on that is not white
\* space, or Len(t) + 1
SkipSpace(t, i) ==
  CHOOSE j \in i..(Len(t) + 1) :
     (\A k \in i..(j - 1) : IsSpace(t[k])) /\ (j > Len(t) \/ ~IsSpace(t[j]))

\* the same for digits
SkipDigits(t, i) ==
  CHOOSE j \in i..(Len(t) + 1) :
     (\A k \in i..(j - 1) : IsDigit(t[k])) /\ (j > Len(t) \/ ~IsDigit(t[j]))

\* \uXXXX at index i of t: its code, or -1
GetU4(t, i) ==
  IF i + 5 <= Len(t) /\ t[i] = "\\" /\ t[i + 1] = "u"
     /\ \A j \in (i + 2)..(i + 5) : IsHex(t[j])
  THEN 4096 * HexVal(t[i + 2]) + 256 * HexVal(t[i + 3]) + 16 * HexVal(t[i + 4]) + HexVal(t[i + 5])
  ELSE 0 - 1

IsSurrogate(r) == 55296 <= r /\ r < 57344

\* utf16.DecodeRune: the code point of a surrogate pair, or U+FFFD
DecodeRune(r1, r2) ==
  IF 55296 <= r1 /\ r1 < 56320 /\ 56320 <= r2 /\ r2 < 57344
  THEN (r1 - 55296) * 1024 + (r2 - 56320) + 65536
  ELSE 65533

RECURSIVE ScanString(_, _, _)
\* a JSON string of t whose opening quote is before index i: the characters
\* it denotes (acc holds those read so far) and the index after its closing
\* quote
ScanString(t, i, acc) ==
  LET fail == [ok |-> FALSE, s |-> <<>>, i |-> i]
      unicode(rr, pair) ==
        IF rr < 0 THEN fail
        ELSE IF ~IsSurrogate(rr) THEN ScanString(t, i + 6, Append(acc, Chr(rr)))
        ELSE IF pair # 65533 THEN ScanString(t, i + 12, Append(acc, Chr(pair)))
        ELSE ScanString(t, i + 6, Append(acc, Chr(65533)))
      escape(e) ==
        IF e \in {Quote, "\\", "/"} THEN ScanString(t, i + 2, Append(acc, e))
        ELSE IF e = "b" THEN ScanString(t, i + 2, Append(acc, Chr(8)))
        ELSE IF e = "f" THEN ScanString(t, i + 2, Append(acc, Chr(12)))
        ELSE IF e = "n" THEN ScanString(t, i + 2, Append(acc, Chr(10)))
        ELSE IF e = "r" THEN ScanString(t, i + 2, Append(acc, Chr(13)))
        ELSE IF e = "t" THEN ScanString(t, i + 2, Append(acc, Chr(9)))
        ELSE IF e = "u" THEN unicode(GetU4(t, i), DecodeRune(GetU4(t, i), GetU4(t, i + 6)))
        ELSE fail
  IN IF i > Len(t) THEN fail
     ELSE IF t[i] = Quote THEN [ok |-> TRUE, s |-> acc, i |-> i + 1]
     ELSE IF t[i] = "\\" THEN (IF i + 1 > Len(t) THEN fail ELSE escape(t[i + 1]))
     ELSE IF IsControl(t[i]) THEN fail
     ELSE ScanString(t, i + 1, Append(acc, t[i]))

(***************************************************************************)
(* Numbers.  A number that is an integer of at most nine digits is held as *)
(* JNum; any other as JFloat(neg, d, e), the float64 nearest to            *)
(* 0.d * 10^e, where d has neither leading nor trailing zeros.             *)
(***************************************************************************)
\* 2^1024 - 2^970 in decimal: a number at or above it has no float64
Float64Limit ==
  <<"1", "7", "9", "7", "6", "9", "3", "1", "3", "4", "8", "6", "2", "3", "1", "5", "8", "0",
     "7", "9", "3", "7", "2", "8", "9", "7", "1", "4", "0", "5", "3", "0", "3", "4", "1", "5",
     "0", "7", "9", "9", "3", "4", "1", "3", "2", "7", "1", "0", "0", "3", "7", "8", "2", "6",
     "9", "3", "6", "1", "7", "3", "7", "7", "8", "9", "8", "0", "4", "4", "4", "9", "6", "8",
     "2", "9", "2", "7", "6", "4", "7", "5", "0", "9", "4", "6", "6", "4", "9", "0", "1", "7",
     "9", "7", "7", "5", "8", "7", "2", "0", "7", "0", "9", "6", "3", "3", "0", "2", "8", "6",
     "4", "1", "6", "6", "9", "2", "8", "8", "7", "9", "1", "0", "9", "4", "6", "5", "5", "5",
     "5", "4", "7", "8", "5", "1", "9", "4", "0", "4", "0", "2", "6", "3", "0", "6", "5", "7",
     "4", "8", "8", "6", "7", "1", "5", "0", "5", "8", "2", "0", "6", "8", "1", "9", "0", "8",
     "9", "0", "2", "0", "0", "0", "7", "0", "8", "3", "8", "3", "6", "7", "6", "2", "7", "3",
     "8", "5", "4", "8", "4", "5", "8", "1", "7", "7", "1", "1", "5", "3", "1", "7", "6", "4",
     "4", "7", "5", "7", "3", "0", "2", "7", "0", "0", "6", "9", "8", "5", "5", "5", "7", "1",
     "3", "6", "6", "9", "5", "9", "6", "2", "2", "8", "4", "2", "9", "1", "4", "8", "1", "9",
     "8", "6", "0", "8", "3", "4", "9", "3", "6", "4", "7", "5", "2", "9", "2", "7", "1", "9",
     "0", "7", "4", "1", "6", "8", "4", "4", "4", "3", "6", "5", "5", "1", "0", "7", "0", "4",
     "3", "4", "2", "7", "1", "1", "5", "5", "9", "6", "9", "9", "5", "0", "8", "0", "9", "3",
     "0", "4", "2", "8", "8", "0", "1", "7", "7", "9", "0", "4", "1", "7", "4", "4", "9", "7",
     "7", "9", "2">>

\* strconv.ParseFloat of a number with the sign neg, the digits ip before
\* and fp after the point and the exponent (expNeg, ed): ok is false when
\* the number is out of the range of float64.  An exponent of more than six
\* digits puts every number a text can hold out of range, or makes it zero.
ConvertNumber(neg, ip, fp, expNeg, ed) ==
  LET zero == IF neg THEN JFloat(TRUE, <<"0">>, 0) ELSE JNum(0)
      \* the number is 0.sig * 10^e
      value(sig, e) ==
        IF e > 309 \/ (e = 309 /\ DigitsAtLeast(sig, Float64Limit)) THEN [ok |-> FALSE, v |-> zero]
        ELSE IF e >= Len(sig) /\ e <= 9 /\ e >= 1
        THEN [ok |-> TRUE,
              v |-> JNum((IF neg THEN 0 - 1 ELSE 1)
                         * DigitsVal(sig \o [j \in 1..(e - Len(sig)) |-> "0"]))]
        ELSE [ok |-> TRUE, v |-> JFloat(neg, sig, e)]
      \* d is the digits from the first that is not 0 on, xd the exponent's
      convert(all, d, xd) ==
        IF Len(d) = 0 THEN [ok |-> TRUE, v |-> zero]
        ELSE IF Len(xd) > 6 THEN [ok |-> expNeg, v |-> zero]
        ELSE value(StripTrailingZeros(d),
                   Len(ip) - (Len(all) - Len(d))
                   + (IF expNeg THEN 0 - DigitsVal(xd) ELSE DigitsVal(xd)))
  IN convert(ip \o fp, StripLeadingZeros(ip \o fp), StripLeadingZeros(ed))

\* the digits of 5^1, 5^2, ..., 5^54
Pow5Digits ==
  <<<<"5">>, <<"2", "5">>, <<"1", "2", "5">>, <<"6", "2", "5">>, <<"3", "1", "2", "5">>,
     <<"1", "5", "6", "2", "5">>, <<"7", "8", "1", "2", "5">>, <<"3", "9", "0", "6", "2",
     "5">>, <<"1", "9", "5", "3", "1", "2", "5">>, <<"9", "7", "6", "5", "6", "2", "5">>,
     <<"4", "8", "8", "2", "8", "1", "2", "5">>, <<"2", "4", "4", "1", "4", "0", "6", "2",
     "5">>, <<"1", "2", "2", "0", "7", "0", "3", "1", "2", "5">>, <<"6", "1", "0", "3",
     "5", "1", "5", "6", "2", "5">>, <<"3", "0", "5", "1", "7", "5", "7", "8", "1", "2",
     "5">>, <<"1", "5", "2", "5", "8", "7", "8", "9", "0", "6", "2", "5">>, <<"7", "6",
     "2", "9", "3", "9", "4", "5", "3", "1", "2", "5">>, <<"3", "8", "1", "4", "6", "9",
     "7", "2", "6", "5", "6", "2", "5">>, <<"1", "9", "0", "7", "3", "4", "8", "6", "3",
     "2", "8", "1", "2", "5">>, <<"9", "5", "3", "6", "7", "4", "3", "1", "6", "4", "0",
     "6", "2", "5">>, <<"4", "7", "6", "8", "3", "7", "1", "5", "8", "2", "0", "3", "1",
     "2", "5">>, <<"2", "3", "8", "4", "1", "8", "5", "7", "9", "1", "0", "1", "5", "6",
     "2", "5">>, <<"1", "1", "9", "2", "0", "9", "2", "8", "9", "5", "5", "0", "7", "8",
     "1", "2", "5">>, <<"5", "9", "6", "0", "4", "6", "4", "4", "7", "7", "5", "3", "9",
     "0", "6", "2", "5">>, <<"2", "9", "8", "0", "2", "3", "2", "2", "3", "8", "7", "6",
     "9", "5", "3", "1", "2", "5">>, <<"1", "4", "9", "0", "1", "1", "6", "1", "1", "9",
     "3", "8", "4", "7", "6", "5", "6", "2", "5">>, <<"7", "4", "5", "0", "5", "8", "0",
     "5", "9", "6", "9", "2", "3", "8", "2", "8", "1", "2", "5">>, <<"3", "7", "2", "5",
     "2", "9", "0", "2", "9", "8", "4", "6", "1", "9", "1", "4", "0", "6", "2", "5">>,
     <<"1", "8", "6", "2", "6", "4", "5", "1", "4", "9", "2", "3", "0", "9", "5", "7", "0",
     "3", "1", "2", "5">>, <<"9", "3", "1", "3", "2", "2", "5", "7", "4", "6", "1", "5",
     "4", "7", "8", "5", "1", "5", "6", "2", "5">>, <<"4", "6", "5", "6", "6", "1", "2",
     "8", "7", "3", "0", "7", "7", "3", "9", "2", "5", "7", "8", "1", "2", "5">>, <<"2",
     "3", "2", "8", "3", "0", "6", "4", "3", "6", "5", "3", "8", "6", "9", "6", "2", "8",
     "9", "0", "6", "2", "5">>, <<"1", "1", "6", "4", "1", "5", "3", "2", "1", "8", "2",
     "6", "9", "3", "4", "8", "1", "4", "4", "5", "3", "1", "2", "5">>, <<"5", "8", "2",
     "0", "7", "6", "6", "0", "9", "1", "3", "4", "6", "7", "4", "0", "7", "2", "2", "6",
     "5", "6", "2", "5">>, <<"2", "9", "1", "0", "3", "8", "3", "0", "4", "5", "6", "7",
     "3", "3", "7", "0", "3", "6", "1", "3", "2", "8", "1", "2", "5">>, <<"1", "4", "5",
     "5", "1", "9", "1", "5", "2", "2", "8", "3", "6", "6", "8", "5", "1", "8", "0", "6",
     "6", "4", "0", "6", "2", "5">>, <<"7", "2", "7", "5", "9", "5", "7", "6", "1", "4",
     "1", "8", "3", "4", "2", "5", "9", "0", "3", "3", "2", "0", "3", "1", "2", "5">>,
     <<"3", "6", "3", "7", "9", "7", "8", "8", "0", "7", "0", "9", "1", "7", "1", "2", "9",
     "5", "1", "6", "6", "0", "1", "5", "6", "2", "5">>, <<"1", "8", "1", "8", "9", "8",
     "9", "4", "0", "3", "5", "4", "5", "8", "5", "6", "4", "7", "5", "8", "3", "0", "0",
     "7", "8", "1", "2", "5">>, <<"9", "0", "9", "4", "9", "4", "7", "0", "1", "7", "7",
     "2", "9", "2", "8", "2", "3", "7", "9", "1", "5", "0", "3", "9", "0", "6", "2", "5">>,
     <<"4", "5", "4", "7", "4", "7", "3", "5", "0", "8", "8", "6", "4", "6", "4", "1", "1",
     "8", "9", "5", "7", "5", "1", "9", "5", "3", "1", "2", "5">>, <<"2", "2", "7", "3",
     "7", "3", "6", "7", "5", "4", "4", "3", "2", "3", "2", "0", "5", "9", "4", "7", "8",
     "7", "5", "9", "7", "6", "5", "6", "2", "5">>, <<"1", "1", "3", "6", "8", "6", "8",
     "3", "7", "7", "2", "1", "6", "1", "6", "0", "2", "9", "7", "3", "9", "3", "7", "9",
     "8", "8", "2", "8", "1", "2", "5">>, <<"5", "6", "8", "4", "3", "4", "1", "8", "8",
     "6", "0", "8", "0", "8", "0", "1", "4", "8", "6", "9", "6", "8", "9", "9", "4", "1",
     "4", "0", "6", "2", "5">>, <<"2", "8", "4", "2", "1", "7", "0", "9", "4", "3", "0",
     "4", "0", "4", "0", "0", "7", "4", "3", "4", "8", "4", "4", "9", "7", "0", "7", "0",
     "3", "1", "2", "5">>, <<"1", "4", "2", "1", "0", "8", "5", "4", "7", "1", "5", "2",
     "0", "2", "0", "0", "3", "7", "1", "7", "4", "2", "2", "4", "8", "5", "3", "5", "1",
     "5", "6", "2", "5">>, <<"7", "1", "0", "5", "4", "2", "7", "3", "5", "7", "6", "0",
     "1", "0", "0", "1", "8", "5", "8", "7", "1", "1", "2", "4", "2", "6", "7", "5", "7",
     "8", "1", "2", "5">>, <<"3", "5", "5", "2", "7", "1", "3", "6", "7", "8", "8", "0",
     "0", "5", "0", "0", "9", "2", "9", "3", "5", "5", "6", "2", "1", "3", "3", "7", "8",
     "9", "0", "6", "2", "5">>, <<"1", "7", "7", "6", "3", "5", "6", "8", "3", "9", "4",
     "0", "0", "2", "5", "0", "4", "6", "4", "6", "7", "7", "8", "1", "0", "6", "6", "8",
     "9", "4", "5", "3", "1", "2", "5">>, <<"8", "8", "8", "1", "7", "8", "4", "1", "9",
     "7", "0", "0", "1", "2", "5", "2", "3", "2", "3", "3", "8", "9", "0", "5", "3", "3",
     "4", "4", "7", "2", "6", "5", "6", "2", "5">>, <<"4", "4", "4", "0", "8", "9", "2",
     "0", "9", "8", "5", "0", "0", "6", "2", "6", "1", "6", "1", "6", "9", "4", "5", "2",
     "6", "6", "7", "2", "3", "6", "3", "2", "8", "1", "2", "5">>, <<"2", "2", "2", "0",
     "4", "4", "6", "0", "4", "9", "2", "5", "0", "3", "1", "3", "0", "8", "0", "8", "4",
     "7", "2", "6", "3", "3", "3", "6", "1", "8", "1", "6", "4", "0", "6", "2", "5">>,
     <<"1", "1", "1", "0", "2", "2", "3", "0", "2", "4", "6", "2", "5", "1", "5", "6", "5",
     "4", "0", "4", "2", "3", "6", "3", "1", "6", "6", "8", "0", "9", "0", "8", "2", "0",
     "3", "1", "2", "5">>, <<"5", "5", "5", "1", "1", "1", "5", "1", "2", "3", "1", "2",
     "5", "7", "8", "2", "7", "0", "2", "1", "1", "8", "1", "5", "8", "3", "4", "0", "4",
     "5", "4", "1", "0", "1", "5", "6", "2", "5">>>>

\* the digits of 2^-1075 = 0.24703... * 10^-323, half the least float64
Float64HalfMin ==
  <<"2", "4", "7", "0", "3", "2", "8", "2", "2", "9", "2", "0", "6", "2", "3", "2", "7",
     "2", "0", "8", "8", "2", "8", "4", "3", "9", "6", "4", "3", "4", "1", "1", "0", "6",
     "8", "6", "1", "8", "2", "5", "2", "9", "9", "0", "1", "3", "0", "7", "1", "6", "2",
     "3", "8", "2", "2", "1", "2", "7", "9", "2", "8", "4", "1", "2", "5", "0", "3", "3",
     "7", "7", "5", "3", "6", "3", "5", "1", "0", "4", "3", "7", "5", "9", "3", "2", "6",
     "4", "9", "9", "1", "8", "1", "8", "0", "8", "1", "7", "9", "9", "6", "1", "8", "9",
     "8", "9", "8", "2", "8", "2", "3", "4", "7", "7", "2", "2", "8", "5", "8", "8", "6",
     "5", "4", "6", "3", "3", "2", "8", "3", "5", "5", "1", "7", "7", "9", "6", "9", "8",
     "9", "8", "1", "9", "9", "3", "8", "7", "3", "9", "8", "0", "0", "5", "3", "9", "0",
     "9", "3", "9", "0", "6", "3", "1", "5", "0", "3", "5", "6", "5", "9", "5", "1", "5",
     "5", "7", "0", "2", "2", "6", "3", "9", "2", "2", "9", "0", "8", "5", "8", "3", "9",
     "2", "4", "4", "9", "1", "0", "5", "1", "8", "4", "4", "3", "5", "9", "3", "1", "8",
     "0", "2", "8", "4", "9", "9", "3", "6", "5", "3", "6", "1", "5", "2", "5", "0", "0",
     "3", "1", "9", "3", "7", "0", "4", "5", "7", "6", "7", "8", "2", "4", "9", "2", "1",
     "9", "3", "6", "5", "6", "2", "3", "6", "6", "9", "8", "6", "3", "6", "5", "8", "4",
     "8", "0", "7", "5", "7", "0", "0", "1", "5", "8", "5", "7", "6", "9", "2", "6", "9",
     "9", "0", "3", "7", "0", "6", "3", "1", "1", "9", "2", "8", "2", "7", "9", "5", "5",
     "8", "5", "5", "1", "3", "3", "2", "9", "2", "7", "8", "3", "4", "3", "3", "8", "4",
     "0", "9", "3", "5", "1", "9", "7", "8", "0", "1", "5", "5", "3", "1", "2", "4", "6",
     "5", "9", "7", "2", "6", "3", "5", "7", "9", "5", "7", "4", "6", "2", "2", "7", "6",
     "6", "4", "6", "5", "2", "7", "2", "8", "2", "7", "2", "2", "0", "0", "5", "6", "3",
     "7", "4", "0", "0", "6", "4", "8", "5", "4", "9", "9", "9", "7", "7", "0", "9", "6",
     "5", "9", "9", "4", "7", "0", "4", "5", "4", "0", "2", "0", "8", "2", "8", "1", "6",
     "6", "2", "2", "6", "2", "3", "7", "8", "5", "7", "3", "9", "3", "4", "5", "0", "7",
     "3", "6", "3", "3", "9", "0", "0", "7", "9", "6", "7", "7", "6", "1", "9", "3", "0",
     "5", "7", "7", "5", "0", "6", "7", "4", "0", "1", "7", "6", "3", "2", "4", "6", "7",
     "3", "6", "0", "0", "9", "6", "8", "9", "5", "1", "3", "4", "0", "5", "3", "5", "5",
     "3", "7", "4", "5", "8", "5", "1", "6", "6", "6", "1", "1", "3", "4", "2", "2", "3",
     "7", "6", "6", "6", "7", "8", "6", "0", "4", "1", "6", "2", "1", "5", "9", "6", "8",
     "0", "4", "6", "1", "9", "1", "4", "4", "6", "7", "2", "9", "1", "8", "4", "0", "3",
     "0", "0", "5", "3", "0", "0", "5", "7", "5", "3", "0", "8", "4", "9", "0", "4", "8",
     "7", "6", "5", "3", "9", "1", "7", "1", "1", "3", "8", "6", "5", "9", "1", "6", "4",
     "6", "2", "3", "9", "5", "2", "4", "9", "1", "2", "6", "2", "3", "6", "5", "3", "8",
     "8", "1", "8", "7", "9", "6", "3", "6", "2", "3", "9", "3", "7", "3", "2", "8", "0",
     "4", "2", "3", "8", "9", "1", "0", "1", "8", "6", "7", "2", "3", "4", "8", "4", "9",
     "7", "6", "6", "8", "2", "3", "5", "0", "8", "9", "8", "6", "3", "3", "8", "8", "5",
     "8", "7", "9", "2", "5", "6", "2", "8", "3", "0", "2", "7", "5", "5", "9", "9", "5",
     "6", "5", "7", "5", "2", "4", "4", "5", "5", "5", "0", "7", "2", "5", "5", "1", "8",
     "9", "3", "1", "3", "6", "9", "0", "8", "3", "6", "2", "5", "4", "7", "7", "9", "1",
     "8", "6", "9", "4", "8", "6", "6", "7", "9", "9", "4", "9", "6", "8", "3", "2", "4",
     "0", "4", "9", "7", "0", "5", "8", "2", "1", "0", "2", "8", "5", "1", "3", "1", "8",
     "5", "4", "5", "1", "3", "9", "6", "2", "1", "3", "8", "3", "7", "7", "2", "2", "8",
     "2", "6", "1", "4", "5", "4", "3", "7", "6", "9", "3", "4", "1", "2", "5", "3", "2",
     "0", "9", "8", "5", "9", "1", "3", "2", "7", "6", "6", "7", "2", "3", "6", "3", "2",
     "8", "1", "2", "5">>

(***************************************************************************)
(* A float64 written by json.Marshal and read into an integer: the number  *)
(* 0.d * 10^e goes to the float64 nearest to it, a tie to the one with the *)
(* even mantissa, and the float64 is written with the fewest digits that   *)
(* read back as it.  Only a float64 that is an integer below 2^63 in       *)
(* magnitude reads into an integer.                                        *)
(***************************************************************************)
\* the k with 2^k <= n < 2^(k+1), for the digits of an n from 1 to 2^64 - 1
Binade(n) ==
  LET in(pow) == CHOOSE k \in 0..63 : CmpDigits(pow[k + 1], n) <= 0 /\ CmpDigits(n, pow[k + 2]) < 0
  IN in(Pow2Digits)

\* 0.f <= 2^-m, for the digits f after the point and m from 1 to 54:
\* 2^-m is 5^m / 10^m
AtMostPow2(f, m) == DigitsAtLeast(Pad(Pow5Digits[m], m), f)

\* the digits after the point of 1 - 0.f, for an f that is not zero
Complement(f) ==
  LET p == CHOOSE j \in 1..Len(f) : f[j] # "0" /\ \A i \in (j + 1)..Len(f) : f[i] = "0"
  IN [j \in 1..Len(f) |->
        IF j < p THEN Digits[10 - DigitVal(f[j])]
        ELSE IF j = p THEN Digits[11 - DigitVal(f[j])]
        ELSE "0"]

\* the digits d as a number, or 10000 when they are 10000 or more
Capped(d) == IF Len(Norm(d)) > 4 THEN 10000 ELSE DigitsVal(Norm(d))

\* strconv.FormatFloat(v, 'f', -1, 64) for a float64 v that is an integer
\* from 2^52 to 2^63: the digits of the number with the most trailing zeros
\* among those that read back as v, the nearest to v of them
Shortest(v) ==
  LET k == Binade(v)
      s == 2^(k - 52)
      even == ModDigits(v, 2 * s) = 0
      lo == IF v = Pow2(k) THEN s \div 4 ELSE s \div 2
      hi == s \div 2
      n == Len(v)
      down(t) == Capped(SubSeq(v, n - t + 1, n))
      upDigits(t) == IF down(t) = 0 THEN Capped(<<"1">> \o Zeros(t))
                     ELSE Capped(Complement(SubSeq(v, n - t + 1, n)))
      downOK(t) == down(t) < lo \/ (even /\ down(t) = lo)
      upOK(t) == upDigits(t) < hi \/ (even /\ upDigits(t) = hi)
      T == {t \in 1..(n - 1) : downOK(t) \/ upOK(t)}
      roundUp(t) ==
        IF downOK(t) /\ upOK(t)
        THEN down(t) > upDigits(t) \/ (down(t) = upDigits(t) /\ DigitVal(v[n - t]) % 2 = 1)
        ELSE upOK(t)
      cut(t) ==
        IF roundUp(t) THEN AddDigits(SubSeq(v, 1, n - t), <<>>, 1) \o Zeros(t)
        ELSE SubSeq(v, 1, n - t) \o Zeros(t)
  IN IF k <= 53 \/ T = {} THEN v
     ELSE cut(CHOOSE t \in T : \A u \in T : u <= t)

\* the float64 nearest to i.f, for the digits i of an integer from 2^52 to
\* 10^19 and the digits f after the point
RoundLarge(i, f) ==
  LET \* s is the distance of two float64 at i, rem what i is above one
      nearest(s, rem, half) ==
        IF half < 0 \/ (half = 0 /\ ModDigits(i, 2 * s) = rem)
        THEN Norm(SubDigits(i, ItoaNat(rem), 0))
        ELSE AddDigits(Norm(SubDigits(i, ItoaNat(rem), 0)), ItoaNat(s), 0)
      above(s, rem) ==
        nearest(s, rem,
                IF s = 1
                THEN (IF Len(f) = 0 \/ DigitVal(f[1]) < 5 THEN 0 - 1 ELSE IF f = <<"5">> THEN 0 ELSE 1)
                ELSE (IF 2 * rem < s THEN 0 - 1 ELSE IF 2 * rem > s \/ Len(f) > 0 THEN 1 ELSE 0))
      spaced(s) == above(s, ModDigits(i, s))
  IN spaced(2^(Binade(i) - 52))

\* the int read from the float64 nearest to the number with the sign neg
\* and the value 0.d * 10^e, where d has neither leading nor trailing zeros
\* and is "0" for zero
Float64Int(neg, d, e) ==
  LET fail == [ok |-> FALSE, v |-> 0, w |-> <<>>]
      read(i) == [ok |-> TRUE, v |-> i.v, w |-> i.w]
      int(v) == read(Int64(neg, v))
      large(v) == IF CmpDigits(v, Pow2(63)) >= 0 THEN fail ELSE int(Shortest(v))
      \* i.f for an i below 2^52 and an f that is not zero
      small(i, f, m) ==
        IF AtMostPow2(f, m) THEN int(i)
        ELSE IF AtMostPow2(Complement(f), m) THEN int(AddDigits(i, <<>>, 1))
        ELSE fail
      split(i, f) ==
        IF CmpDigits(i, Pow2(52)) >= 0 THEN large(RoundLarge(i, f))
        ELSE IF Len(f) = 0 THEN int(i)
        ELSE small(i, f, 53 - Binade(i))
  IN IF d = <<"0">> THEN int(d)
     ELSE IF e > 19 THEN fail
     ELSE IF e < 0 - 323 \/ (e = 0 - 323 /\ DigitsAtLeast(Float64HalfMin, d)) THEN int(<<"0">>)
     ELSE IF e < 0 THEN fail
     ELSE IF e = 0 THEN (IF AtMostPow2(Complement(d), 54) THEN int(<<"1">>) ELSE fail)
     ELSE IF e >= Len(d) THEN split(d \o Zeros(e - Len(d)), <<>>)
     ELSE split(SubSeq(d, 1, e), SubSeq(d, e + 1, Len(d)))

\* the float64 nearest to 2^53 + d, as its distance from 2^53: between 2^53
\* and 2^54 the float64 values are the even integers, and a tie goes to the
\* one whose mantissa is even
Float64Big(d) == IF d % 2 = 0 THEN d ELSE IF d % 4 = 1 THEN d - 1 ELSE d + 1

RECURSIVE ViaFloat64(_)
\* json.Unmarshal into interface{} holds every number as a float64, those of
\* the items of an array and of the members of an object too: an integer
\* beyond 2^53 in magnitude becomes the float64 nearest to it
ViaFloat64(v) ==
  LET float(neg, r) == JFloat(neg, StripTrailingZeros(r), Len(r))
      wide(neg, d) == IF CmpDigits(d, Pow2(53)) <= 0 THEN v ELSE float(neg, RoundLarge(d, <<>>))
  IN IF v.k = "big" THEN JBig(Float64Big(v.n))
     ELSE IF v.k = "int" THEN wide(v.s[1] = "-", IF v.s[1] = "-" THEN Tail(v.s) ELSE v.s)
     ELSE IF v.k = "array" THEN JItems([i \in 1..Len(v.a) |-> ViaFloat64(v.a[i])])
     ELSE IF v.k = "object" THEN JObject([x \in DOMAIN v.o |-> ViaFloat64(v.o[x])])
     ELSE v

\* json.Unmarshal of an object into a map[string]interface{}
ViaMap(obj) == [x \in DOMAIN obj |-> ViaFloat64(obj[x])]

\* json.Marshal of the MonitorAlias struct, following its field tags: an
\* int field with omitempty is left out when it is 0
MarshalAlias(m) ==
  LET zero(f) == IntField(m, f) = SmallInt(0)
      o0 == [x \in {Txt_friendly_name, Txt_url, Txt_type, Txt_port, Txt_status} |->
               CASE x = Txt_friendly_name -> JStr(m.FriendlyName)
                 [] x = Txt_url -> JStr(m.URL)
                 [] x = Txt_type -> JInt(IntField(m, "Type"))
                 [] x = Txt_port -> JInt(IntField(m, "Port"))
                 [] x = Txt_status -> JInt(IntField(m, "Status"))]
      o1 == IF ~zero("ID") THEN Put(o0, Txt_id, JInt(IntField(m, "ID"))) ELSE o0
      o2 == IF ~zero("SubType") THEN Put(o1, Txt_sub_type, JInt(IntField(m, "SubType"))) ELSE o1
      o3 == IF ~zero("KeywordType") THEN Put(o2, Txt_keyword_type, JInt(IntField(m, "KeywordType"))) ELSE o2
      o4 == IF m.KeywordValue # <<>> THEN Put(o3, Txt_keyword_value, JStr(m.KeywordValue)) ELSE o3
      o5 == IF Len(m.AlertContacts) # 0 THEN Put(o4, Txt_alert_contacts, JList(m.AlertContacts)) ELSE o4
  IN o5

\* a MarshalJSON that leaves alert_contacts as the list json.Marshal wrote
MarshalJSON_ListContacts(m) == MarshalAlias(m)

\* the struct goes through a map[string]interface{}, where every number is
\* a float64 and alert_contacts is replaced
MarshalJSON(m) ==
  Put(ViaMap(MarshalAlias(m)), Txt_alert_contacts, JStr(buildAlertContactList(m.AlertContacts)))

\* a JSON number of t that starts at index i
ScanNumber(t, i) ==
  LET fail == [ok |-> FALSE, v |-> JNull, i |-> i]
      \* i0 is the index of the first digit, i1, i2 and i4 the indices after
      \* the integer part, the fraction and the exponent, whose digits start
      \* at i3
      number(conv, i4) == [ok |-> conv.ok, v |-> conv.v, i |-> i4]
      exponent(i0, i1, i2, i3, i4) ==
        IF i3 > i2 /\ i4 = i3 THEN fail
        ELSE number(ConvertNumber(t[i] = "-", SubSeq(t, i0, i1 - 1), SubSeq(t, i1 + 1, i2 - 1),
                                  i3 > i2 /\ t[i3 - 1] = "-", SubSeq(t, i3, i4 - 1)),
                    i4)
      mark(i0, i1, i2, i3) == exponent(i0, i1, i2, i3, IF i3 > i2 THEN SkipDigits(t, i3) ELSE i2)
      fraction(i0, i1, i2) ==
        IF i2 = i1 + 1 THEN fail
        ELSE mark(i0, i1, i2,
                  IF i2 <= Len(t) /\ t[i2] \in {"e", "E"}
                  THEN (IF i2 + 1 <= Len(t) /\ t[i2 + 1] \in {"+", "-"} THEN i2 + 2 ELSE i2 + 1)
                  ELSE i2)
      integer(i0, i1) ==
        IF i1 = i0 THEN fail
        ELSE fraction(i0, i1, IF i1 <= Len(t) /\ t[i1] = "." THEN SkipDigits(t, i1 + 1) ELSE i1)
      sign(i0) == integer(i0, IF i0 <= Len(t) /\ t[i0] = "0" THEN i0 + 1 ELSE SkipDigits(t, i0))
  IN sign(IF t[i] = "-" THEN i + 1 ELSE i)

\* the literal word at index i of t
ScanLiteral(t, i, word, v) ==
  IF i + Len(word) - 1 <= Len(t) /\ SubSeq(t, i, i + Len(word) - 1) = word
  THEN [ok |-> TRUE, v |-> v, i |-> i + Len(word)]
  ELSE [ok |-> FALSE, v |-> JNull, i |-> i]

\* an array: a list of strings is held as JList, as the codec holds it
JArray(items) ==
  IF \A j \in 1..Len(items) : items[j].k = "str"
  THEN JList([j \in 1..Len(items) |-> items[j].s])
  ELSE JItems(items)

RECURSIVE ScanValue(_, _)
RECURSIVE ScanMembers(_, _, _)
RECURSIVE ScanItems(_, _, _)
\* the JSON value of t that starts at index i, and the index after it
ScanValue(t, i) ==
  LET fail == [ok |-> FALSE, v |-> JNull, i |-> i]
      object(j) ==
        IF j <= Len(t) /\ t[j] = "}" THEN [ok |-> TRUE, v |-> JObject(EmptyObj), i |-> j + 1]
        ELSE ScanMembers(t, j, EmptyObj)
      array(j) ==
        IF j <= Len(t) /\ t[j] = "]" THEN [ok |-> TRUE, v |-> JArray(<<>>), i |-> j + 1]
        ELSE ScanItems(t, j, <<>>)
      string(str) == [ok |-> str.ok, v |-> JStr(str.s), i |-> str.i]
  IN IF i > Len(t) THEN fail
     ELSE IF t[i] = "{" THEN object(SkipSpace(t, i + 1))
     ELSE IF t[i] = "[" THEN array(SkipSpace(t, i + 1))
     ELSE IF t[i] = Quote THEN string(ScanString(t, i + 1, <<>>))
     ELSE IF t[i] = "-" \/ IsDigit(t[i]) THEN ScanNumber(t, i)
     ELSE IF t[i] = "t" THEN ScanLiteral(t, i, <<"t", "r", "u", "e">>, JBool(TRUE))
     ELSE IF t[i] = "f" THEN ScanLiteral(t, i, <<"f", "a", "l", "s", "e">>, JBool(FALSE))
     ELSE IF t[i] = "n" THEN ScanLiteral(t, i, <<"n", "u", "l", "l">>, JNull)
     ELSE fail

\* the members of an object from the key at index i on; obj holds the
\* members read so far
ScanMembers(t, i, obj) ==
  LET fail == [ok |-> FALSE, v |-> JNull, i |-> i]
      \* j is the index of what follows the member
      next(members, j) ==
        IF j > Len(t) THEN fail
        ELSE IF t[j] = "}" THEN [ok |-> TRUE, v |-> JObject(members), i |-> j + 1]
        ELSE IF t[j] = "," THEN ScanMembers(t, SkipSpace(t, j + 1), members)
        ELSE fail
      value(key, val) ==
        IF ~val.ok THEN fail ELSE next(Put(obj, key, val.v), SkipSpace(t, val.i))
      colon(key, j) ==
        IF ~key.ok \/ j > Len(t) \/ t[j] # ":" THEN fail
        ELSE value(key.s, ScanValue(t, SkipSpace(t, j + 1)))
      member(key) == colon(key, SkipSpace(t, key.i))
  IN IF i > Len(t) \/ t[i] # Quote THEN fail
     ELSE member(ScanString(t, i + 1, <<>>))

\* the items of an array from the value at index i on
ScanItems(t, i, items) ==
  LET fail == [ok |-> FALSE, v |-> JNull, i |-> i]
      next(all, j) ==
        IF j > Len(t) THEN fail
        ELSE IF t[j] = "]" THEN [ok |-> TRUE, v |-> JArray(all), i |-> j + 1]
        ELSE IF t[j] = "," THEN ScanItems(t, SkipSpace(t, j + 1), all)
        ELSE fail
      item(val) == IF ~val.ok THEN fail ELSE next(Append(items, val.v), SkipSpace(t, val.i))
  IN item(ScanValue(t, i))

\* the request data a text is, by what json.Unmarshal(text, &tmp) does
\* with it for a map tmp: text that is not one JSON value, or holds a
\* number out of range, or is not an object, is an error; null leaves the
\* map nil; decorateRequestData does not unmarshal the empty text
DataOfText(text) ==
  LET data(val) ==
        IF ~val.ok \/ SkipSpace(text, val.i) <= Len(text) THEN InvalidData
        ELSE IF val.v.k = "object" THEN ObjData(val.v.o)
        ELSE IF val.v.k = "null" THEN NullData
        ELSE InvalidData
  IN IF Len(text) = 0 THEN EmptyData ELSE data(ScanValue(text, SkipSpace(text, 1)))

(***************************************************************************)
(* decorateRequestData: adds api_key and format to the request data.       *)
(* json.Unmarshal of the literal null leaves the temporary map nil, and    *)
(* the assignment into the nil map panics.                                 *)
(***************************************************************************)
decorateRequestData(data, apiKey) ==
  IF data.kind = "invalid"
  THEN [err |-> Err("decorate"), panic |-> FALSE, data |-> EmptyData]
  ELSE IF data.kind = "null"
  THEN [err |-> NoErr, panic |-> TRUE, data |-> EmptyData]
  ELSE [err |-> NoErr, panic |-> FALSE,
        data |-> ObjData(Put(Put(ViaMap(data.obj), Txt_api_key, JStr(apiKey)), Txt_format, JStr(Txt_json)))]

(***************************************************************************)
(* MakeAPICall, up to and including the call of HTTPClient.Do.             *)
(* c is the Client; dumpOK says whether httputil.DumpRequestOut succeeds.  *)
(* sent tells whether the request went out; req is the request.            *)
(***************************************************************************)
\* http.NewRequest(http.MethodPost, c.URL + "/v2/" + verb, data) with the
\* content-type header: path is what follows c.URL
Request(verb, body) ==
  [method |-> "POST", path |-> <<"/v2/", verb>>, contentType |-> "application/json",
   verb |-> verb, body |-> body]

NoRequest == [method |-> "", path |-> <<>>, contentType |-> "", verb |-> "", body |-> EmptyData]

\* a MakeAPICall that sends the undecorated data when decorating fails
MakeAPICallSend_IgnoreDecorateErr(verb, data, c, dumpOK) ==
  [err |-> NoErr, panic |-> FALSE, sent |-> TRUE,
   req |-> Request(verb, data),
   sink |-> IF c.Debug THEN <<"request">> ELSE <<>>]

\* a MakeAPICall that dumps the request and does not send it
MakeAPICallSend_DebugSkipsRequest(verb, data, c, dumpOK) ==
  LET d == decorateRequestData(data, c.apiKey)
      stop(e, p, sink) == [err |-> e, panic |-> p, sent |-> FALSE, req |-> NoRequest, sink |-> sink]
  IN IF d.panic THEN stop(NoErr, TRUE, <<>>)
     ELSE IF d.err # NoErr THEN stop(d.err, FALSE, <<>>)
     ELSE IF ~c.URLValid THEN stop(Err("newrequest"), FALSE, <<>>)
     ELSE IF c.Debug /\ ~dumpOK THEN stop(Err("dumprequest"), FALSE, <<>>)
     ELSE IF c.Debug THEN stop(NoErr, FALSE, <<"request">>)
     ELSE [err |-> NoErr, panic |-> FALSE, sent |-> TRUE, req |-> Request(verb, d.data), sink |-> <<>>]

MakeAPICallSend(verb, data, c, dumpOK) ==
  LET d == decorateRequestData(data, c.apiKey)
      stop(e, p) == [err |-> e, panic |-> p, sent |-> FALSE, req |-> NoRequest, sink |-> <<>>]
  IN IF d.panic THEN stop(NoErr, TRUE)
     ELSE IF d.err # NoErr THEN stop(d.err, FALSE)
     ELSE IF ~c.URLValid THEN stop(Err("newrequest"), FALSE)
     ELSE IF c.Debug /\ ~dumpOK THEN stop(Err("dumprequest"), FALSE)
     ELSE [err |-> NoErr, panic |-> FALSE, sent |-> TRUE,
           req |-> Request(verb, d.data),
           sink |-> IF c.Debug THEN <<"request">> ELSE <<>>]

\* a status test that lets every 2xx status through
StatusAccepted_2xx(status) == status >= 200 /\ status <= 299

(***************************************************************************)
(* The status test of MakeAPICall.                                         *)
(***************************************************************************)
StatusAccepted(status) == status = StatusOK

(***************************************************************************)
(* MakeAPICall, from the return of HTTPClient.Do.  resp is what the        *)
(* transport delivered: net "fail" is an error from Do; readable says      *)
(* whether the body can be read to its end (DumpResponse and ReadAll fail   *)
(* when it cannot); body.json is the shape of the                          *)
(* body text, body.typed whether every field has the type the Response     *)
(* struct wants, body.r what decoding the body leaves in the Response: on  *)
(* an object with a field of the wrong type the decoder skips that field,  *)
(* fills the others and reports the type error, so body.r then holds the   *)
(* fields of the right type.  A body that is not JSON, or not an object,   *)
(* leaves the Response as it was.  Decoding the literal null through &r    *)
(* sets the local pointer r to nil, and r.Stat panics.                     *)
(* The Response passed in is a fresh Response{}.                           *)
(***************************************************************************)
\* a MakeAPICall that decodes the body before it looks at the status
MakeAPICallReceive_DecodeFirst(resp, c) ==
  LET out(e, p, r, sink) == [err |-> e, panic |-> p, r |-> r, sink |-> sink]
      dumped == IF c.Debug THEN <<"response">> ELSE <<>>
  IN IF resp.net = "fail" THEN out(Err("http"), FALSE, ZeroResponse, <<>>)
     ELSE IF c.Debug /\ ~resp.readable THEN out(Err("dumpresponse"), FALSE, ZeroResponse, <<>>)
     ELSE IF ~resp.readable THEN out(Err("read"), FALSE, ZeroResponse, dumped)
     ELSE IF resp.body.json = "null" THEN out(NoErr, TRUE, ZeroResponse, dumped)
     ELSE IF resp.body.json # "object" THEN out(Err("decode"), FALSE, ZeroResponse, dumped)
     ELSE IF ~resp.body.typed THEN out(Err("decode"), FALSE, resp.body.r, dumped)
     ELSE IF resp.body.r.Stat # "ok" THEN out(APIErr(resp.body.r.Error), FALSE, resp.body.r, dumped)
     ELSE IF resp.status # StatusOK THEN out(StatusErr(resp.status), FALSE, ZeroResponse, dumped)
     ELSE out(NoErr, FALSE, resp.body.r, dumped)

MakeAPICallReceive(resp, c) ==
  LET out(e, p, r, sink) == [err |-> e, panic |-> p, r |-> r, sink |-> sink]
      dumped == IF c.Debug THEN <<"response">> ELSE <<>>
  IN IF resp.net = "fail" THEN out(Err("http"), FALSE, ZeroResponse, <<>>)
     ELSE IF c.Debug /\ ~resp.readable THEN out(Err("dumpresponse"), FALSE, ZeroResponse, <<>>)
     ELSE IF ~resp.readable THEN out(Err("read"), FALSE, ZeroResponse, dumped)
     ELSE IF ~StatusAccepted(resp.status) THEN out(StatusErr(resp.status), FALSE, ZeroResponse, dumped)
     ELSE IF resp.body.json = "null" THEN out(NoErr, TRUE, ZeroResponse, dumped)
     ELSE IF resp.body.json # "object" THEN out(Err("decode"), FALSE, ZeroResponse, dumped)
     ELSE IF ~resp.body.typed THEN out(Err("decode"), FALSE, resp.body.r, dumped)
     ELSE IF resp.body.r.Stat # "ok" THEN out(APIErr(resp.body.r.Error), FALSE, resp.body.r, dumped)
     ELSE out(NoErr, FALSE, resp.body.r, dumped)

(***************************************************************************)
(* State.                                                                  *)
(*   client     the Client of the single-call specification                *)
(*   cPhase     where the current operation is: "idle", "sent" (inside     *)
(*              HTTPClient.Do), "done" (returned), "panicked"              *)
(*   cOp        the operation called and its arguments                     *)
(*   cReq       the HTTP request handed to HTTPClient.Do                   *)
(*   cRequests  how many times the current call invoked HTTPClient.Do      *)
(*   cSink      what the current call wrote to client.Debug                *)
(*   cResp      the response the transport delivered                       *)
(*   cOut       what MakeAPICall returned and stored in the Response       *)
(*   cResult    what the operation returned                                *)
(***************************************************************************)
VARIABLES client, cPhase, cOp, cReq, cRequests, cSink, cResp, cOut, cResult

callVars == <<client, cPhase, cOp, cReq, cRequests, cSink, cResp, cOut, cResult>>

(***************************************************************************)
(* The operations of the Client, each one MakeAPICall.                     *)
(***************************************************************************)
Op(name, id, s, m, data) == [name |-> name, id |-> id, s |-> s, m |-> m, data |-> data]

NoOp == Op("", 0, <<>>, ZeroMonitor, EmptyData)

Verb(op) ==
  CASE op.name = "GetAccountDetails" -> "getAccountDetails"
    [] op.name \in {"GetMonitor", "SearchMonitors"} -> "getMonitors"
    [] op.name = "AllAlertContacts" -> "getAlertContacts"
    [] op.name = "CreateMonitor" -> "newMonitor"
    [] op.name \in {"PauseMonitor", "StartMonitor"} -> "editMonitor"
    [] op.name = "DeleteMonitor" -> "deleteMonitor"
    [] OTHER -> "getMonitors"

\* []byte(`{"search": "` + s + `"}`): s is pasted into the text as it is, so
\* what the text is as JSON decides: a quote in s ends the string, a
\* backslash starts an escape
SearchText(s) ==
  <<"{", Quote, "s", "e", "a", "r", "c", "h", Quote, ":", " ", Quote>> \o s \o <<Quote, "}">>

SearchData(s) == DataOfText(SearchText(s))

\* an edit request that sends the id as a number
EditData_NumericID(id, status) ==
  ObjData([x \in {Txt_id, Txt_status} |-> IF x = Txt_id THEN JInt(id) ELSE JNum(status)])

\* {"id": "%d","status": %d} of m.ID, an int64 held as the record of v and w
EditData(id, status) ==
  ObjData([x \in {Txt_id, Txt_status} |-> IF x = Txt_id THEN JStr(FormatInt(id)) ELSE JNum(status)])

\* the data each operation hands to MakeAPICall
RequestData(op) ==
  CASE op.name \in {"GetAccountDetails", "AllAlertContacts"} -> EmptyData
    [] op.name = "GetMonitor" -> ObjData([x \in {Txt_monitors} |-> JStr(Itoa(op.id))])
    [] op.name = "SearchMonitors" -> SearchData(op.s)
    [] op.name = "CreateMonitor" -> ObjData(MarshalJSON(op.m))
    [] op.name = "PauseMonitor" -> EditData(IntField(op.m, "ID"), StatusPaused)
    [] op.name = "StartMonitor" -> EditData(IntField(op.m, "ID"), StatusResumed)
    [] op.name = "DeleteMonitor" -> ObjData([x \in {Txt_id} |-> JStr(Itoa(op.id))])
    [] OTHER -> op.data

\* what an operation returns.  The int64 it returns is id, or, beyond
\* 2147483647, id 0 with the sign and the digits in wide
Result(err, id, monitor, monitors, account, contacts) ==
  [err |-> err, id |-> id, wide |-> <<>>, monitor |-> monitor, monitors |-> monitors,
   account |-> account, contacts |-> contacts]

\* return i, nil for the int64 i
IDResult(i) == [Result(NoErr, i.v, ZeroMonitor, <<>>, 0, <<>>) EXCEPT !.wide = i.w]

\* the int64 of a result
ResultID(res) == [v |-> res.id, w |-> res.wide]

NoResult == Result(NoErr, 0, ZeroMonitor, <<>>, 0, <<>>)

Failed(err) == Result(err, 0, ZeroMonitor, <<>>, 0, <<>>)

\* operations that return what was decoded together with the error
OpResult_KeepDecoded(op, err, r) ==
  CASE op.name = "GetAccountDetails" -> Result(err, 0, ZeroMonitor, <<>>, r.Account, <<>>)
    [] op.name = "GetMonitor" ->
         IF Len(r.Monitors) = 0 THEN Failed(IF err # NoErr THEN err ELSE Err("notfound"))
         ELSE Result(err, 0, r.Monitors[1], <<>>, 0, <<>>)
    [] op.name = "SearchMonitors" -> Result(err, 0, ZeroMonitor, r.Monitors, 0, <<>>)
    [] op.name = "AllAlertContacts" -> Result(err, 0, ZeroMonitor, <<>>, 0, r.AlertContacts)
    [] op.name = "CreateMonitor" -> [IDResult(IntField(r.Monitor, "ID")) EXCEPT !.err = err]
    [] op.name \in {"PauseMonitor", "StartMonitor"} -> Result(err, 0, r.Monitor, <<>>, 0, <<>>)
    [] OTHER -> Failed(err)

\* a CreateMonitor that returns the ID of the monitor it was given
OpResult_CreateReturnsInputID(op, err, r) ==
  IF err # NoErr THEN Failed(err)
  ELSE IF op.name = "CreateMonitor" THEN IDResult(IntField(op.m, "ID"))
  ELSE IF op.name = "GetMonitor" /\ Len(r.Monitors) > 0 THEN Result(NoErr, 0, r.Monitors[1], <<>>, 0, <<>>)
  ELSE NoResult

\* a GetMonitor that does not look at the length of the list
OpResult_GetMonitorNoCheck(op, err, r) ==
  IF err # NoErr THEN Failed(err)
  ELSE IF op.name = "GetMonitor"
  THEN Result(NoErr, 0, IF Len(r.Monitors) = 0 THEN ZeroMonitor ELSE r.Monitors[1], <<>>, 0, <<>>)
  ELSE IF op.name = "CreateMonitor" THEN IDResult(IntField(r.Monitor, "ID"))
  ELSE NoResult

\* a GetMonitor that returns the last monitor of the list
OpResult_GetMonitorLast(op, err, r) ==
  IF err # NoErr THEN Failed(err)
  ELSE IF op.name = "GetMonitor"
  THEN IF Len(r.Monitors) = 0 THEN Failed(Err("notfound"))
       ELSE Result(NoErr, 0, r.Monitors[Len(r.Monitors)], <<>>, 0, <<>>)
  ELSE NoResult

\* what each operation returns, given MakeAPICall's error and the Response
OpResult(op, err, r) ==
  IF err # NoErr THEN Failed(err)
  ELSE CASE op.name = "GetAccountDetails" -> Result(NoErr, 0, ZeroMonitor, <<>>, r.Account, <<>>)
         [] op.name = "GetMonitor" ->
              IF Len(r.Monitors) = 0 THEN Failed(Err("notfound"))
              ELSE Result(NoErr, 0, r.Monitors[1], <<>>, 0, <<>>)
         [] op.name = "SearchMonitors" -> Result(NoErr, 0, ZeroMonitor, r.Monitors, 0, <<>>)
         [] op.name = "AllAlertContacts" -> Result(NoErr, 0, ZeroMonitor, <<>>, 0, r.AlertContacts)
         [] op.name = "CreateMonitor" -> IDResult(IntField(r.Monitor, "ID"))
         [] op.name \in {"PauseMonitor", "StartMonitor"} -> Result(NoErr, 0, r.Monitor, <<>>, 0, <<>>)
         [] OTHER -> NoResult

(***************************************************************************)
(* Inputs of the single-call specification.                                *)
(***************************************************************************)
ApiKey == <<"k">>

ArgIDs == {0, 7}

\* search strings: a plain one, one with a quote, one that closes the
\* string and adds a member (","x":"), a lone backslash, the escape \u0041,
\* and a tab
ArgStrings == {<<"a">>, <<"a", Quote>>, <<Quote, ",", Quote, "x", Quote, ":", Quote>>,
               <<"\\">>, <<"\\", "u", "0", "0", "4", "1">>, <<"\t">>}

\* 2^53 + 1, an int64 that is not a float64 value
WideID == WideInt(FALSE, <<"9", "0", "0", "7", "1", "9", "9", "2", "5", "4", "7", "4", "0", "9", "9", "3">>)

\* 2^31, an int64 beyond 2147483647 that a response can hold
EchoedID == WideInt(FALSE, <<"2", "1", "4", "7", "4", "8", "3", "6", "4", "8">>)

ArgMonitors == {Mon(0, <<"n">>, <<"a">>, <<>>), Mon(7, <<"n">>, <<"a">>, << <<"3">>, <<"5">> >>),
                [ZeroMonitor EXCEPT !.ID = 677810870],
                WithInt(Mon(0, <<"n">>, <<"a">>, <<>>), "ID", WideID)}

ArgData == {EmptyData, InvalidData, NullData,
            ObjData([x \in {Txt_api_key, Txt_limit} |-> IF x = Txt_api_key THEN JStr(<<"z">>) ELSE JStr(<<"5">>)]),
            ObjData([x \in {Txt_format, Txt_monitors} |-> IF x = Txt_format THEN JStr(<<"x">>) ELSE JBig(1)]),
            ObjData([x \in {Txt_monitors, Txt_logs} |-> IF x = Txt_monitors THEN JBig(2) ELSE JNum(1)])}

Statuses == {200, 201, 404}

Body(json, typed, r) == [json |-> json, typed |-> typed, r |-> r]

OkBody ==
  Body("object", TRUE,
       [ZeroResponse EXCEPT !.Stat = "ok", !.Account = 1,
          !.Monitors = <<Mon(7, <<"n">>, <<"a">>, <<>>)>>,
          !.Monitor = Mon(7, <<>>, <<>>, <<>>), !.AlertContacts = << <<"3">> >>])

FailBody ==
  Body("object", TRUE,
       [ZeroResponse EXCEPT !.Stat = "fail", !.Error = "e1", !.Account = 1,
          !.Monitors = <<Mon(7, <<"n">>, <<"a">>, <<>>)>>,
          !.Monitor = Mon(7, <<>>, <<>>, <<>>)])

\* testdata/newMonitor.json: {"stat":"ok","monitor":{"id":777810874,"status":1}}
CannedCreateBody ==
  Body("object", TRUE,
       [ZeroResponse EXCEPT !.Stat = "ok", !.Monitor = [ZeroMonitor EXCEPT !.ID = 777810874, !.Status = 1]])

\* a list of two monitors, and a monitor that holds only its id
ListBody ==
  Body("object", TRUE,
       [ZeroResponse EXCEPT !.Stat = "ok",
          !.Monitors = <<Mon(8, <<"p">>, <<"b">>, <<>>), Mon(7, <<"n">>, <<"a">>, <<>>)>>,
          !.Monitor = [ZeroMonitor EXCEPT !.ID = 677810870]])

\* a monitor that holds only an id beyond 2147483647
WideBody ==
  Body("object", TRUE, [ZeroResponse EXCEPT !.Stat = "ok", !.Monitor = WithInt(ZeroMonitor, "ID", EchoedID)])

Bodies ==
  {Body("malformed", FALSE, ZeroResponse),
   Body("null", TRUE, ZeroResponse),
   Body("scalar", FALSE, ZeroResponse),
   Body("object", FALSE, [ZeroResponse EXCEPT !.Stat = "ok"]),
   Body("object", FALSE, [ZeroResponse EXCEPT !.Stat = "fail", !.Error = "e1"]),
   Body("object", TRUE, ZeroResponse),
   Body("object", TRUE, [ZeroResponse EXCEPT !.Stat = "ok"]),
   Body("object", TRUE, [ZeroResponse EXCEPT !.Stat = "fail", !.Error = "e2"]),
   OkBody, FailBody, CannedCreateBody, ListBody, WideBody}

HTTPResp(net, status, readable, body) ==
  [net |-> net, status |-> status, readable |-> readable, body |-> body]

NoResp == HTTPResp("none", 0, FALSE, Body("malformed", FALSE, ZeroResponse))

Responses ==
  {HTTPResp("fail", 0, FALSE, Body("malformed", FALSE, ZeroResponse))}
  \cup {HTTPResp("ok", st, rd, b) : st \in Statuses, rd \in BOOLEAN, b \in Bodies}

NoOut == [err |-> NoErr, panic |-> FALSE, r |-> ZeroResponse, sink |-> <<>>]

Clients == [apiKey : {ApiKey}, URLValid : BOOLEAN, Debug : BOOLEAN]

DumpOutcomes(c) == IF c.Debug THEN BOOLEAN ELSE {TRUE}

(***************************************************************************)
(* The single-call specification: one Client, one operation at a time.     *)
(***************************************************************************)
CallInit ==
  /\ client \in Clients
  /\ cPhase = "idle"
  /\ cOp = NoOp
  /\ cReq = NoRequest
  /\ cRequests = 0
  /\ cSink = <<>>
  /\ cResp = NoResp
  /\ cOut = NoOut
  /\ cResult = NoResult

\* the operation op is called: it runs up to HTTPClient.Do, or returns early
Begin(op) ==
  /\ cPhase = "idle"
  /\ \E dumpOK \in DumpOutcomes(client) :
       LET begin(snd) ==
             /\ cOp' = op
             /\ cReq' = snd.req
             /\ cRequests' = (IF snd.sent THEN 1 ELSE 0)
             /\ cSink' = snd.sink
             /\ cResp' = NoResp
             /\ cOut' = [NoOut EXCEPT !.err = snd.err, !.panic = snd.panic, !.sink = snd.sink]
             /\ cResult' = (IF snd.sent \/ snd.panic THEN NoResult ELSE OpResult(op, snd.err, ZeroResponse))
             /\ cPhase' = (IF snd.panic THEN "panicked" ELSE IF snd.sent THEN "sent" ELSE "done")
       IN begin(MakeAPICallSend(Verb(op), RequestData(op), client, dumpOK))
  /\ UNCHANGED client

GetAccountDetails == Begin(Op("GetAccountDetails", 0, <<>>, ZeroMonitor, EmptyData))

GetMonitor == \E id \in ArgIDs : Begin(Op("GetMonitor", id, <<>>, ZeroMonitor, EmptyData))

SearchMonitors == \E s \in ArgStrings : Begin(Op("SearchMonitors", 0, s, ZeroMonitor, EmptyData))

AllAlertContacts == Begin(Op("AllAlertContacts", 0, <<>>, ZeroMonitor, EmptyData))

CreateMonitor == \E m \in ArgMonitors : Begin(Op("CreateMonitor", 0, <<>>, m, EmptyData))

PauseMonitor == \E m \in ArgMonitors : Begin(Op("PauseMonitor", 0, <<>>, m, EmptyData))

StartMonitor == \E m \in ArgMonitors : Begin(Op("StartMonitor", 0, <<>>, m, EmptyData))

DeleteMonitor == \E id \in ArgIDs : Begin(Op("DeleteMonitor", id, <<>>, ZeroMonitor, EmptyData))

MakeAPICall == \E d \in ArgData : Begin(Op("MakeAPICall", 0, <<>>, ZeroMonitor, d))

\* HTTPClient.Do returns: MakeAPICall classifies, the operation returns
DoReturns ==
  /\ cPhase = "sent"
  /\ \E resp \in Responses :
       LET rcv == MakeAPICallReceive(resp, client)
       IN /\ cResp' = resp
          /\ cSink' = cSink \o rcv.sink
          /\ cOut' = [rcv EXCEPT !.sink = cSink \o rcv.sink]
          /\ cResult' = (IF rcv.panic THEN NoResult ELSE OpResult(cOp, rcv.err, rcv.r))
          /\ cPhase' = (IF rcv.panic THEN "panicked" ELSE "done")
  /\ UNCHANGED <<client, cOp, cReq, cRequests>>

\* the caller goes on to its next call
NextCall ==
  /\ cPhase = "done"
  /\ cPhase' = "idle"
  /\ cOp' = NoOp
  /\ cReq' = NoRequest
  /\ cRequests' = 0
  /\ cSink' = <<>>
  /\ cResp' = NoResp
  /\ cOut' = NoOut
  /\ cResult' = NoResult
  /\ UNCHANGED client

CallNext ==
  \/ GetAccountDetails
  \/ GetMonitor
  \/ SearchMonitors
  \/ AllAlertContacts
  \/ CreateMonitor
  \/ PauseMonitor
  \/ StartMonitor
  \/ DeleteMonitor
  \/ MakeAPICall
  \/ DoReturns
  \/ NextCall

(***************************************************************************)
(* AllMonitors: the pagination loop.                                       *)
(*   pTotal     the number of monitors the backend holds                   *)
(*   pPhase     "idle", "sent" (a page request is inside HTTPClient.Do),   *)
(*              "done" (AllMonitors returned), "panicked"                  *)
(*   pOffset    the local variable offset                                  *)
(*   pMonitors  the named result monitors                                  *)
(*   pErr       the named result err                                       *)
(*   pReq       the page request in flight                                 *)
(*   pCallErr   the error of the latest MakeAPICall                        *)
(*   pLog       the page requests answered so far, each with the offset    *)
(*              and limit the backend read from it, how it was answered,   *)
(*              and the pagination and monitors of the response            *)
(*   pInFlight  the number of page requests handed to HTTPClient.Do that   *)
(*              have not returned                                          *)
(***************************************************************************)
VARIABLES pTotal, pPhase, pOffset, pMonitors, pErr, pReq, pCallErr, pLog, pInFlight

pageVars == <<pTotal, pPhase, pOffset, pMonitors, pErr, pReq, pCallErr, pLog, pInFlight>>

DefaultClient == [apiKey |-> ApiKey, URLValid |-> TRUE, Debug |-> FALSE]

\* the Params of one page request
PageParams(offset, limit) ==
  ObjData([x \in {Txt_offset, Txt_limit} |-> IF x = Txt_offset THEN JStr(Itoa(offset)) ELSE JStr(Itoa(limit))])

\* a loop that steps from the offset it asked for
NextOffset_FromRequested(r, limit, requested) == requested + limit

\* offset = r.Pagination.Offset + limit; requested is the offset of the
\* request, which the loop does not look at
NextOffset(r, limit, requested) == r.Pagination.Offset + limit

\* a call that hands the request over and does not wait for the response
AfterDo_NoWait(n) == n

\* MakeAPICall returns only when HTTPClient.Do has returned
AfterDo(n) == n - 1

\* a loop that overwrites the result with the latest page
Accumulate_Latest(monitors, page) == page

\* monitors = append(monitors, r.Monitors...)
Accumulate(monitors, page) == monitors \o page

\* condition := offset+limit < total
MorePages(offset, limit, total) == offset + limit < total

\* the err that AllMonitors returns after MakeAPICall returned callErr:
\* the if statement declares its own err, the named result is not assigned
ErrAfterFailedCall(err, callErr) == err

\* fmt.Errorf of r.Error
ResponseErr(payload) == [kind |-> "response", status |-> 0, payload |-> payload]

(***************************************************************************)
(* The paging backend: monitor i of pTotal, served in the order 1, 2, ...  *)
(***************************************************************************)
BackendMonitor(i) == Mon(i, Itoa(i), <<"u">>, <<>>)

Min(a, b) == IF a < b THEN a ELSE b

Max(a, b) == IF a > b THEN a ELSE b

PageOf(total, off, lim) == [i \in 1..Max(0, Min(lim, total - off)) |-> BackendMonitor(off + i)]

ReqOffset(req) == Atoi(req.body.obj[Txt_offset].s).v

ReqLimit(req) == Atoi(req.body.obj[Txt_limit].s).v

PageBody(total, req) ==
  Body("object", TRUE,
       [ZeroResponse EXCEPT !.Stat = "ok",
          !.Monitors = PageOf(total, ReqOffset(req), ReqLimit(req)),
          !.Pagination = [Offset |-> ReqOffset(req), Limit |-> ReqLimit(req), Total |-> total]])

\* the ways a page request can be answered: "page" is the backend's answer
PageAnswers == {"page", "transport", "status", "unreadable", "malformed", "null", "apifail", "okwitherror"}

PageResponse(answer, total, req) ==
  CASE answer = "page" -> HTTPResp("ok", StatusOK, TRUE, PageBody(total, req))
    [] answer = "transport" -> HTTPResp("fail", 0, FALSE, Body("malformed", FALSE, ZeroResponse))
    [] answer = "status" -> HTTPResp("ok", 404, TRUE, PageBody(total, req))
    [] answer = "unreadable" -> HTTPResp("ok", StatusOK, FALSE, PageBody(total, req))
    [] answer = "malformed" -> HTTPResp("ok", StatusOK, TRUE, Body("malformed", FALSE, ZeroResponse))
    [] answer = "null" -> HTTPResp("ok", StatusOK, TRUE, Body("null", TRUE, ZeroResponse))
    [] answer = "apifail" ->
         HTTPResp("ok", StatusOK, TRUE,
                  Body("object", TRUE, [PageBody(total, req).r EXCEPT !.Stat = "fail", !.Error = "e1"]))
    [] answer = "okwitherror" ->
         HTTPResp("ok", StatusOK, TRUE,
                  Body("object", TRUE, [PageBody(total, req).r EXCEPT !.Error = "e1"]))

PageInit ==
  /\ pTotal \in 0..MaxTotal
  /\ pPhase = "idle"
  /\ pOffset = 0
  /\ pMonitors = <<>>
  /\ pErr = NoErr
  /\ pReq = NoRequest
  /\ pCallErr = NoErr
  /\ pLog = <<>>
  /\ pInFlight = 0

\* AllMonitors is called and makes its first page request
AllMonitors ==
  /\ pPhase = "idle"
  /\ LET snd == MakeAPICallSend("getMonitors", PageParams(0, PageLimit), DefaultClient, TRUE)
     IN /\ pReq' = snd.req
        /\ pPhase' = "sent"
  /\ pInFlight' = pInFlight + 1
  /\ pOffset' = 0
  /\ pMonitors' = <<>>
  /\ pErr' = NoErr
  /\ pCallErr' = NoErr
  /\ UNCHANGED <<pTotal, pLog>>

\* HTTPClient.Do returns resp for the page request in flight: the rest of
\* the loop body runs, and either AllMonitors returns or the next page
\* request goes out
PageStep(resp, answer) ==
  LET rcv == MakeAPICallReceive(resp, DefaultClient)
      entry == [offset |-> ReqOffset(pReq), limit |-> ReqLimit(pReq), answer |-> answer,
                meta |-> resp.body.r.Pagination, monitors |-> resp.body.r.Monitors,
                callErr |-> rcv.err, before |-> pMonitors]
      offset == NextOffset(rcv.r, PageLimit, ReqOffset(pReq))
      total == rcv.r.Pagination.Total
  IN /\ pLog' = Append(pLog, entry)
     /\ pCallErr' = rcv.err
     /\ IF rcv.panic
        THEN /\ pPhase' = "panicked"
             /\ pInFlight' = AfterDo(pInFlight)
             /\ UNCHANGED <<pOffset, pMonitors, pErr, pReq>>
        ELSE IF rcv.err # NoErr
        THEN /\ pPhase' = "done"
             /\ pErr' = ErrAfterFailedCall(pErr, rcv.err)
             /\ pReq' = NoRequest
             /\ pInFlight' = AfterDo(pInFlight)
             /\ UNCHANGED <<pOffset, pMonitors>>
        ELSE IF rcv.r.Error # "none"
        THEN /\ pPhase' = "done"
             /\ pMonitors' = Accumulate(pMonitors, rcv.r.Monitors)
             /\ pErr' = ResponseErr(rcv.r.Error)
             /\ pReq' = NoRequest
             /\ pInFlight' = AfterDo(pInFlight)
             /\ UNCHANGED pOffset
        ELSE /\ pMonitors' = Accumulate(pMonitors, rcv.r.Monitors)
             /\ pOffset' = offset
             /\ UNCHANGED pErr
             /\ IF MorePages(offset, PageLimit, total)
                THEN /\ pPhase' = "sent"
                     /\ pReq' = MakeAPICallSend("getMonitors", PageParams(offset, PageLimit),
                                                DefaultClient, TRUE).req
                     /\ pInFlight' = AfterDo(pInFlight) + 1
                ELSE /\ pPhase' = "done"
                     /\ pReq' = NoRequest
                     /\ pInFlight' = AfterDo(pInFlight)

\* a page request is answered by the paging backend, or fails
PageReturns ==
  /\ pPhase = "sent"
  /\ \E answer \in PageAnswers : PageStep(PageResponse(answer, pTotal, pReq), answer)
  /\ UNCHANGED pTotal

PageNext == AllMonitors \/ PageReturns

(***************************************************************************)
(* AllMonitors against a backend that puts any offset and any total into   *)
(* the pagination of a page, and any monitors into the page.               *)
(***************************************************************************)
\* how many page requests are answered
MaxPages == 3

MetaOffsets == {0, 50, 100}

MetaTotals == {0, 101, 250}

\* the monitors of the n-th response: none, or two that carry n
MetaMonitors(n) == {<<>>, <<BackendMonitor(10 * n + 1), BackendMonitor(10 * n + 2)>>}

MetaBody(off, total, monitors, req) ==
  Body("object", TRUE,
       [ZeroResponse EXCEPT !.Stat = "ok", !.Monitors = monitors,
          !.Pagination = [Offset |-> off, Limit |-> ReqLimit(req), Total |-> total]])

MetaAnswers == {"page", "transport", "null", "apifail", "okwitherror"}

MetaResponse(answer, body) ==
  CASE answer = "page" -> HTTPResp("ok", StatusOK, TRUE, body)
    [] answer = "null" -> HTTPResp("ok", StatusOK, TRUE, Body("null", TRUE, ZeroResponse))
    [] answer = "transport" -> HTTPResp("fail", 0, FALSE, Body("malformed", FALSE, ZeroResponse))
    [] answer = "apifail" ->
         HTTPResp("ok", StatusOK, TRUE, Body("object", TRUE, [body.r EXCEPT !.Stat = "fail", !.Error = "e1"]))
    [] OTHER -> HTTPResp("ok", StatusOK, TRUE, Body("object", TRUE, [body.r EXCEPT !.Error = "e1"]))

\* a page request is answered with any pagination and monitors, or fails
MetaReturns ==
  /\ pPhase = "sent"
  /\ Len(pLog) < MaxPages
  /\ \E answer \in MetaAnswers, off \in MetaOffsets, total \in MetaTotals,
        monitors \in MetaMonitors(Len(pLog) + 1) :
       PageStep(MetaResponse(answer, MetaBody(off, total, monitors, pReq)), answer)
  /\ UNCHANGED pTotal

MetaNext == AllMonitors \/ MetaReturns

(***************************************************************************)
(* EnsureMonitor: find-or-create, called by NumProcs concurrent callers    *)
(* against one backend that stores monitors.                               *)
(*   store      the monitors the backend holds, in creation order          *)
(*   nextID     the ID the backend gives to the next monitor it creates    *)
(*   ePc        per caller: "idle", "searching" (the getMonitors request   *)
(*              is inside HTTPClient.Do), "creating" (the newMonitor       *)
(*              request is)                                                *)
(*   eReq       per caller: the request in flight                          *)
(*   eResp      per caller: the response on its way to the caller, NoResp  *)
(*              while the request has not been dealt with                  *)
(*   eCur       per caller: the record of its current or latest call       *)
(*   eReturned  the calls that returned, in the order they returned        *)
(*   eNewCalls  per URL: the number of newMonitor calls issued for it      *)
(*   eInitial   the monitors the backend held at the start                 *)
(*   eOverlap   whether a call ever began while another was in progress    *)
(*   eFailure   whether any request was answered other than by a success   *)
(***************************************************************************)
VARIABLES store, nextID, ePc, eReq, eResp, eCur, eReturned, eNewCalls, eInitial, eOverlap, eFailure

ensureVars == <<store, nextID, ePc, eReq, eResp, eCur, eReturned, eNewCalls, eInitial, eOverlap, eFailure>>

Procs == 1..NumProcs

URL_a == <<"a">>

URL_ab == <<"a", "b">>

URLs == {URL_a, URL_ab}

EnsureArgs == {Mon(0, <<"n">>, URL_a, <<>>), Mon(9, <<"m">>, URL_ab, << <<"3">> >>)}

\* no monitor; one for each URL; one whose ID is beyond 2147483647
InitialStores ==
  {<<>>,
   <<Mon(4, <<"y">>, URL_a, <<>>), Mon(5, <<"x">>, URL_ab, <<>>)>>,
   <<WithInt(Mon(0, <<"y">>, URL_a, <<>>), "ID", EchoedID)>>}

FirstNewID == 6

(***************************************************************************)
(* The backend: getMonitors with a search string returns the stored        *)
(* monitors whose FriendlyName or URL contains it, getMonitors with a      *)
(* "monitors" parameter the stored monitor with that ID; newMonitor stores *)
(* the monitor under a fresh ID and echoes the ID with status 1;           *)
(* deleteMonitor removes the monitor with the given ID and echoes the ID,  *)
(* or answers stat "fail" when there is none.                              *)
(***************************************************************************)
Matches(mon, s) == Contains(mon.FriendlyName, s) \/ Contains(mon.URL, s)

SearchStore(st, s) == SelectSeq(st, LAMBDA mon : Matches(mon, s))

WithURL(st, u) == SelectSeq(st, LAMBDA mon : mon.URL = u)

OkResponseBody(r) == Body("object", TRUE, [r EXCEPT !.Stat = "ok"])

WithID(st, i) == SelectSeq(st, LAMBDA mon : IntField(mon, "ID") = i)

WithoutID(st, i) == SelectSeq(st, LAMBDA mon : IntField(mon, "ID") # i)

\* the ID a request names in the string parameter key
ParamID(req, key) ==
  LET int(a) == [v |-> a.v, w |-> a.w] IN int(Atoi(req.body.obj[key].s))

Handle(req, st, id) ==
  IF req.verb = "newMonitor"
  THEN [store |-> Append(st, Mon(id, req.body.obj[Txt_friendly_name].s, req.body.obj[Txt_url].s, <<>>)),
        nextID |-> id + 1,
        body |-> OkResponseBody([ZeroResponse EXCEPT !.Monitor = [ZeroMonitor EXCEPT !.ID = id, !.Status = 1]])]
  ELSE IF req.verb = "deleteMonitor"
  THEN [store |-> WithoutID(st, ParamID(req, Txt_id)),
        nextID |-> id,
        body |-> IF Len(WithID(st, ParamID(req, Txt_id))) > 0
                 THEN OkResponseBody([ZeroResponse EXCEPT !.Monitor = WithInt(ZeroMonitor, "ID", ParamID(req, Txt_id))])
                 ELSE Body("object", TRUE, [ZeroResponse EXCEPT !.Stat = "fail", !.Error = "e1"])]
  ELSE IF Has(req.body.obj, Txt_monitors)
  THEN [store |-> st,
        nextID |-> id,
        body |-> OkResponseBody([ZeroResponse EXCEPT !.Monitors = WithID(st, ParamID(req, Txt_monitors))])]
  ELSE [store |-> st,
        nextID |-> id,
        body |-> OkResponseBody([ZeroResponse EXCEPT !.Monitors = SearchStore(st, req.body.obj[Txt_search].s)])]

\* the ways a request can be answered: "served" is the backend's answer,
\* "apifail" a stat "fail" response, "transport" a request that never reached
\* the backend, "lost" a request the backend handled whose response never
\* arrived
SearchAnswers == {"served", "apifail"}

CreateAnswers == {"served", "transport", "lost"}

Changes(answer) == answer \in {"served", "lost"}

AnswerResponse(answer, req, st, id) ==
  CASE answer = "served" -> HTTPResp("ok", StatusOK, TRUE, Handle(req, st, id).body)
    [] answer = "apifail" ->
         HTTPResp("ok", StatusOK, TRUE, Body("object", TRUE, [ZeroResponse EXCEPT !.Stat = "fail", !.Error = "e1"]))
    [] OTHER -> HTTPResp("fail", 0, FALSE, Body("malformed", FALSE, ZeroResponse))

(***************************************************************************)
(* EnsureMonitor's two decisions.                                          *)
(***************************************************************************)
\* what EnsureMonitor decides: to call CreateMonitor, or to return the int64
\* i (id, or id 0 with the sign and the digits in wide) and err
Decision(create, i, err) == [create |-> create, id |-> i.v, wide |-> i.w, err |-> err]

\* an EnsureMonitor that returns the last match instead of the first
EnsureAfterSearch_LastMatch(monitors, err) ==
  IF err # NoErr THEN Decision(FALSE, SmallInt(0), err)
  ELSE IF Len(monitors) = 0 THEN Decision(TRUE, SmallInt(0), NoErr)
  ELSE Decision(FALSE, IntField(monitors[Len(monitors)], "ID"), NoErr)

\* an EnsureMonitor that creates whatever the search found
EnsureAfterSearch_AlwaysCreate(monitors, err) ==
  IF err # NoErr THEN Decision(FALSE, SmallInt(0), err)
  ELSE Decision(TRUE, SmallInt(0), NoErr)

\* after SearchMonitors returned (monitors, err)
EnsureAfterSearch(monitors, err) ==
  IF err # NoErr THEN Decision(FALSE, SmallInt(0), err)
  ELSE IF Len(monitors) = 0 THEN Decision(TRUE, SmallInt(0), NoErr)
  ELSE Decision(FALSE, IntField(monitors[1], "ID"), NoErr)

\* an EnsureMonitor that drops the error of CreateMonitor
EnsureAfterCreate_DropErr(id, err) == [id |-> id.v, wide |-> id.w, err |-> NoErr]

\* after CreateMonitor returned (ID, err), ID an int64 held as the record of
\* v and w
EnsureAfterCreate(id, err) ==
  IF err # NoErr THEN [id |-> 0, wide |-> <<>>, err |-> err]
  ELSE [id |-> id.v, wide |-> id.w, err |-> NoErr]

CallRecord(m) ==
  [m |-> m, done |-> FALSE, searchErr |-> NoErr, searched |-> FALSE, found |-> <<>>,
   newCalls |-> 0, createErr |-> NoErr, created |-> FALSE, respID |-> 0, respWide |-> <<>>,
   id |-> 0, wide |-> <<>>, err |-> NoErr]

NoCall == CallRecord(ZeroMonitor)

Returned(p, rec) == [p |-> p, url |-> rec.m.URL, id |-> rec.id, wide |-> rec.wide, err |-> rec.err]

EnsureInit ==
  /\ store \in InitialStores
  /\ eInitial = store
  /\ nextID = FirstNewID
  /\ ePc = [p \in Procs |-> "idle"]
  /\ eReq = [p \in Procs |-> NoRequest]
  /\ eResp = [p \in Procs |-> NoResp]
  /\ eCur = [p \in Procs |-> NoCall]
  /\ eReturned = <<>>
  /\ eNewCalls = [u \in URLs |-> 0]
  /\ eOverlap = FALSE
  /\ eFailure = FALSE

\* caller p calls EnsureMonitor(m): SearchMonitors(m.URL) sends its request
EnsureMonitor(p) ==
  /\ ePc[p] = "idle"
  /\ Len(eReturned) + Cardinality({q \in Procs : ePc[q] # "idle"}) < MaxCalls
  /\ \E m \in EnsureArgs :
       LET snd == MakeAPICallSend("getMonitors", SearchData(m.URL), DefaultClient, TRUE)
       IN /\ eReq' = [eReq EXCEPT ![p] = snd.req]
          /\ eCur' = [eCur EXCEPT ![p] = CallRecord(m)]
  /\ ePc' = [ePc EXCEPT ![p] = "searching"]
  /\ eOverlap' = (eOverlap \/ \E q \in Procs \ {p} : ePc[q] # "idle")
  /\ UNCHANGED <<store, nextID, eResp, eReturned, eNewCalls, eInitial, eFailure>>

\* the request of caller p is dealt with while p waits in HTTPClient.Do: the
\* backend handles it on the monitors it holds now and answers, or the
\* request or its response is lost
BackendHandles(p) ==
  /\ ePc[p] \in {"searching", "creating"}
  /\ eResp[p] = NoResp
  /\ \E answer \in (IF ePc[p] = "searching" THEN SearchAnswers ELSE CreateAnswers) :
       LET h == Handle(eReq[p], store, nextID)
       IN /\ eResp' = [eResp EXCEPT ![p] = AnswerResponse(answer, eReq[p], store, nextID)]
          /\ store' = (IF Changes(answer) THEN h.store ELSE store)
          /\ nextID' = (IF Changes(answer) THEN h.nextID ELSE nextID)
          /\ eFailure' = (eFailure \/ answer # "served")
  /\ UNCHANGED <<ePc, eReq, eCur, eReturned, eNewCalls, eInitial, eOverlap>>

\* the search of caller p is answered: EnsureMonitor returns, or CreateMonitor
\* sends its request
SearchReturns(p) ==
  /\ ePc[p] = "searching"
  /\ eResp[p] # NoResp
  /\ LET rcv == MakeAPICallReceive(eResp[p], DefaultClient)
         res == OpResult(Op("SearchMonitors", 0, eCur[p].m.URL, ZeroMonitor, EmptyData), rcv.err, rcv.r)
         dec == EnsureAfterSearch(res.monitors, res.err)
         rec == [eCur[p] EXCEPT !.searched = TRUE, !.searchErr = rcv.err, !.found = res.monitors]
     IN IF dec.create
        THEN /\ eReq' = [eReq EXCEPT ![p] =
                   MakeAPICallSend("newMonitor", ObjData(MarshalJSON(rec.m)), DefaultClient, TRUE).req]
             /\ eCur' = [eCur EXCEPT ![p] = [rec EXCEPT !.newCalls = @ + 1]]
             /\ eNewCalls' = [eNewCalls EXCEPT ![rec.m.URL] = @ + 1]
             /\ ePc' = [ePc EXCEPT ![p] = "creating"]
             /\ UNCHANGED eReturned
        ELSE /\ eReq' = [eReq EXCEPT ![p] = NoRequest]
             /\ eCur' = [eCur EXCEPT ![p] = [rec EXCEPT !.done = TRUE, !.id = dec.id, !.wide = dec.wide, !.err = dec.err]]
             /\ eReturned' = Append(eReturned, Returned(p, [rec EXCEPT !.id = dec.id, !.wide = dec.wide, !.err = dec.err]))
             /\ ePc' = [ePc EXCEPT ![p] = "idle"]
             /\ UNCHANGED eNewCalls
  /\ eResp' = [eResp EXCEPT ![p] = NoResp]
  /\ UNCHANGED <<store, nextID, eInitial, eOverlap, eFailure>>

\* the newMonitor request of caller p is answered: EnsureMonitor returns
CreateReturns(p) ==
  /\ ePc[p] = "creating"
  /\ eResp[p] # NoResp
  /\ LET rcv == MakeAPICallReceive(eResp[p], DefaultClient)
         res == OpResult(Op("CreateMonitor", 0, <<>>, eCur[p].m, EmptyData), rcv.err, rcv.r)
         dec == EnsureAfterCreate(ResultID(res), res.err)
         rec == [eCur[p] EXCEPT !.created = TRUE, !.createErr = rcv.err,
                                !.respID = IntField(rcv.r.Monitor, "ID").v,
                                !.respWide = IntField(rcv.r.Monitor, "ID").w,
                                !.done = TRUE, !.id = dec.id, !.wide = dec.wide, !.err = dec.err]
     IN /\ eCur' = [eCur EXCEPT ![p] = rec]
        /\ eReturned' = Append(eReturned, Returned(p, rec))
  /\ eReq' = [eReq EXCEPT ![p] = NoRequest]
  /\ eResp' = [eResp EXCEPT ![p] = NoResp]
  /\ ePc' = [ePc EXCEPT ![p] = "idle"]
  /\ UNCHANGED <<store, nextID, eNewCalls, eInitial, eOverlap, eFailure>>

EnsureNext == \E p \in Procs : EnsureMonitor(p) \/ BackendHandles(p) \/ SearchReturns(p) \/ CreateReturns(p)

(***************************************************************************)
(* Monitor.UnmarshalJSON.                                                  *)
(***************************************************************************)
Remove(obj, key) == [x \in (DOMAIN obj) \ {key} |-> obj[x]]

\* a clean-up without the test for the empty string
CleanField_NoEmptyString(raw, f) ==
  IF ~Has(raw, f) THEN [ok |-> TRUE, raw |-> raw]
  ELSE IF raw[f].k # "str" THEN [ok |-> TRUE, raw |-> raw]
  ELSE IF Atoi(raw[f].s).ok THEN [ok |-> TRUE, raw |-> Put(raw, f, JInt(Atoi(raw[f].s)))]
  ELSE [ok |-> FALSE, raw |-> raw]

\* the clean-up of one of sub_type, keyword_type, port in the raw map
CleanField(raw, f) ==
  IF ~Has(raw, f) THEN [ok |-> TRUE, raw |-> raw]
  ELSE IF raw[f].k # "str" THEN [ok |-> TRUE, raw |-> raw]
  ELSE IF raw[f].s = <<>> THEN [ok |-> TRUE, raw |-> Put(raw, f, JNum(0))]
  ELSE IF Atoi(raw[f].s).ok THEN [ok |-> TRUE, raw |-> Put(raw, f, JInt(Atoi(raw[f].s)))]
  ELSE [ok |-> FALSE, raw |-> raw]

CleanFields(raw) ==
  LET c1 == CleanField(raw, Txt_sub_type)
      c2 == CleanField(c1.raw, Txt_keyword_type)
      c3 == CleanField(c2.raw, Txt_port)
  IN IF ~c1.ok THEN c1 ELSE IF ~c2.ok THEN c2 ELSE c3

(***************************************************************************)
(* json.Unmarshal into the MonitorAlias struct.  A member goes to the      *)
(* field whose tag is its key, or whose tag is its key but for the case of *)
(* the letters; the members are read in the order json.Marshal wrote them, *)
(* the order of the bytes of their keys, and null leaves a field as it is. *)
(***************************************************************************)
IsLower(c) == \E i \in 66..91 : Printable[i] = c

UpperOf(c) == Printable[(CHOOSE i \in 66..91 : Printable[i] = c) - 32]

\* the place of the character c among those that stand for the character
\* t of a tag, in the order of their bytes, or -1: a capital letter, the
\* character itself, and U+017F for s and U+212A for k
FoldRank(c, t) ==
  IF c = t THEN 1
  ELSE IF IsLower(t) /\ c = UpperOf(t) THEN 0
  ELSE IF (t = "s" /\ c = "U+017F") \/ (t = "k" /\ c = "U+212A") THEN 2
  ELSE 0 - 1

MatchesTag(key, tag) ==
  key = tag \/ (Len(key) = Len(tag) /\ \A i \in 1..Len(tag) : FoldRank(key[i], tag[i]) >= 0)

\* the key a is written before the key b, for two keys that match tag
KeyBefore(a, b, tag) ==
  \E i \in 1..Len(tag) :
     /\ FoldRank(a[i], tag[i]) < FoldRank(b[i], tag[i])
     /\ \A j \in 1..(i - 1) : a[j] = b[j]

RECURSIVE InKeyOrder(_, _, _)
\* the values of the members of obj with the keys keys, in key order
InKeyOrder(obj, keys, tag) ==
  LET from(first) == <<obj[first]>> \o InKeyOrder(obj, keys \ {first}, tag)
  IN IF keys = {} THEN <<>>
     ELSE from(CHOOSE k \in keys : \A j \in keys \ {k} : KeyBefore(k, j, tag))

\* the members of obj that go to the field with the tag tag
MembersOf(obj, tag) == InKeyOrder(obj, {k \in DOMAIN obj : MatchesTag(k, tag)}, tag)

\* the member that sets the field last: the last that is not null, or 0
LastSet(vals) ==
  LET set == {i \in 1..Len(vals) : vals[i].k # "null"}
  IN IF set = {} THEN 0 ELSE CHOOSE i \in set : \A j \in set : j <= i

\* a number as the integer field reads it from the text json.Marshal wrote
\* for it: an int as it is, a float64 by its shortest digits
IntValue(v) ==
  LET neg == v.k = "float" /\ Len(v.s) > 0 /\ v.s[1] = "-"
  IN IF v.k = "num" THEN [ok |-> TRUE, v |-> v.n, w |-> <<>>]
     ELSE IF v.k = "int" THEN [ok |-> TRUE, v |-> 0, w |-> v.s]
     ELSE IF v.k \in {"big", "float"}
     THEN Float64Int(neg,
                     IF v.k = "big" THEN StripTrailingZeros(AddDigits(Pow2(53), ItoaNat(v.n), 0))
                     ELSE IF neg THEN Tail(v.s) ELSE v.s,
                     IF v.k = "big" THEN 16 ELSE v.n)
     ELSE [ok |-> FALSE, v |-> 0, w |-> <<>>]

\* a decoding of an integer member that takes true and false for 1 and 0
IntValue_BoolAsInt(v) ==
  IF v.k = "bool" THEN [ok |-> TRUE, v |-> v.n, w |-> <<>>] ELSE IntValue(v)

\* the decoding of an integer member that takes true and false for 1 and 0
IntMember_BoolAsInt(obj, key) ==
  LET result(vals, read, last) ==
        [ok |-> \A i \in 1..Len(vals) : vals[i].k = "null" \/ read[i].ok,
         v |-> IF last = 0 THEN 0 ELSE read[last].v,
         w |-> IF last = 0 THEN <<>> ELSE read[last].w]
      members(vals) == result(vals, [i \in 1..Len(vals) |-> IntValue_BoolAsInt(vals[i])], LastSet(vals))
  IN members(MembersOf(obj, key))

\* json.Unmarshal of the members of one integer, string or []string field:
\* a member of another type is an error
IntMember(obj, key) ==
  LET result(vals, read, last) ==
        [ok |-> \A i \in 1..Len(vals) : vals[i].k = "null" \/ read[i].ok,
         v |-> IF last = 0 THEN 0 ELSE read[last].v,
         w |-> IF last = 0 THEN <<>> ELSE read[last].w]
      members(vals) == result(vals, [i \in 1..Len(vals) |-> IntValue(vals[i])], LastSet(vals))
  IN members(MembersOf(obj, key))

StrMember(obj, key) ==
  LET result(vals, last) ==
        [ok |-> \A i \in 1..Len(vals) : vals[i].k \in {"null", "str"},
         v |-> IF last = 0 THEN <<>> ELSE vals[last].s]
      members(vals) == result(vals, LastSet(vals))
  IN members(MembersOf(obj, key))

\* the items of an array
ItemsOf(v) ==
  IF v.k = "list" THEN [i \in 1..Len(v.l) |-> JStr(v.l[i])]
  ELSE IF v.k = "array" THEN v.a
  ELSE <<>>

RECURSIVE StoreStrings(_, _, _, _)
\* the slice after the members vals from the i-th on, for a slice of n
\* strings in the array back: null and the empty array make a new slice,
\* an array is read into the slice item by item, and a null item leaves
\* what the array held
StoreStrings(vals, i, back, n) ==
  LET items == ItemsOf(vals[i])
      item(j) == IF j <= Len(items) /\ items[j].k = "str" THEN items[j].s
                 ELSE IF j <= Len(back) THEN back[j]
                 ELSE <<>>
      longest == IF Len(back) > Len(items) THEN Len(back) ELSE Len(items)
  IN IF i > Len(vals) THEN SubSeq(back, 1, n)
     ELSE IF Len(items) = 0 THEN StoreStrings(vals, i + 1, <<>>, 0)
     ELSE StoreStrings(vals, i + 1, [j \in 1..longest |-> item(j)], Len(items))

ListMember(obj, key) ==
  LET strings(items) == \A j \in 1..Len(items) : items[j].k \in {"str", "null"}
      members(vals) ==
        IF \A i \in 1..Len(vals) :
              vals[i].k = "null" \/ (vals[i].k \in {"list", "array"} /\ strings(ItemsOf(vals[i])))
        THEN [ok |-> TRUE, v |-> StoreStrings(vals, 1, <<>>, 0)]
        ELSE [ok |-> FALSE, v |-> <<>>]
  IN members(MembersOf(obj, key))

\* the tags of the int fields of the MonitorAlias struct
FieldTag ==
  [ID |-> Txt_id, Type |-> Txt_type, SubType |-> Txt_sub_type,
   KeywordType |-> Txt_keyword_type, Port |-> Txt_port, Status |-> Txt_status]

\* json.Unmarshal into the MonitorAlias struct, following its field tags
UnmarshalAlias(obj) ==
  LET with(m, wide) ==
        IF DOMAIN wide = {} THEN m
        ELSE [x \in (DOMAIN m) \cup {"Wide"} |-> IF x = "Wide" THEN wide ELSE m[x]]
      struct(int, str, list) ==
        [ok |-> (\A f \in DOMAIN int : int[f].ok) /\ (\A t \in DOMAIN str : str[t].ok) /\ list.ok,
         m |-> with([ID |-> int.ID.v, FriendlyName |-> str[Txt_friendly_name].v, URL |-> str[Txt_url].v,
                     Type |-> int.Type.v, SubType |-> int.SubType.v,
                     KeywordType |-> int.KeywordType.v, Port |-> int.Port.v,
                     KeywordValue |-> str[Txt_keyword_value].v, AlertContacts |-> list.v,
                     Status |-> int.Status.v],
                    [f \in {g \in DOMAIN int : int[g].w # <<>>} |-> int[f].w])]
  IN struct([f \in IntFields |-> IntMember(obj, FieldTag[f])],
            [t \in {Txt_friendly_name, Txt_url, Txt_keyword_value} |-> StrMember(obj, t)],
            ListMember(obj, Txt_alert_contacts))

\* a decoding straight into *m: a member the payload lacks keeps its value
UnmarshalJSON_IntoTarget(data, target) ==
  LET alias(c, a) ==
        IF ~c.ok THEN [err |-> Err("atoi"), m |-> target]
        ELSE IF ~a.ok THEN [err |-> Err("type"), m |-> target]
        ELSE [err |-> NoErr,
              m |-> [a.m EXCEPT !.AlertContacts = IF Has(c.raw, Txt_alert_contacts) THEN @ ELSE target.AlertContacts,
                                !.KeywordValue = IF Has(c.raw, Txt_keyword_value) THEN @ ELSE target.KeywordValue]]
      cleaned(c) == alias(c, UnmarshalAlias(c.raw))
  IN IF data.kind \in {"invalid", "empty"} THEN [err |-> Err("syntax"), m |-> target]
     ELSE IF data.kind = "null" THEN [err |-> NoErr, m |-> target]
     ELSE cleaned(CleanFields(ViaMap(data.obj)))

\* m.UnmarshalJSON(data): target is *m before the call; the result holds the
\* error returned and *m after the call
UnmarshalJSON(data, target) ==
  LET alias(c, a) ==
        IF ~c.ok THEN [err |-> Err("atoi"), m |-> target]
        ELSE IF ~a.ok THEN [err |-> Err("type"), m |-> target]
        ELSE [err |-> NoErr, m |-> a.m]
      cleaned(c) == alias(c, UnmarshalAlias(c.raw))
  IN IF data.kind \in {"invalid", "empty"} THEN [err |-> Err("syntax"), m |-> target]
     ELSE IF data.kind = "null" THEN [err |-> NoErr, m |-> ZeroMonitor]
     ELSE cleaned(CleanFields(ViaMap(data.obj)))

(***************************************************************************)
(* The codec specification: a Monitor is encoded and the bytes decoded.    *)
(*   kPhase   "start", "encoded", "decoded" (the encoding was decoded),    *)
(*            "parsed" (a payload of the service was decoded)              *)
(*   kMon     the Monitor that was encoded                                 *)
(*   kWire    the encoded bytes, as request data                           *)
(*   kTarget  the Monitor UnmarshalJSON is called on, before the call      *)
(*   kOut     the error UnmarshalJSON returned and its target afterwards   *)
(*   kForms   the forms of sub_type, keyword_type and port in the payload  *)
(***************************************************************************)
VARIABLES kPhase, kMon, kWire, kTarget, kOut, kForms

codecVars == <<kPhase, kMon, kWire, kTarget, kOut, kForms>>

NoForms == [sub_type |-> "absent", keyword_type |-> "absent", port |-> "absent"]

SmallMonitors ==
  [ID : {0, 7}, FriendlyName : {<<>>, <<"n">>}, URL : {<<"u">>}, Type : {1, 4},
   SubType : {0, 99}, KeywordType : {0, 1}, Port : {0, 80}, KeywordValue : {<<>>, <<"k">>},
   AlertContacts : {<<>>, << <<"3">> >>, << <<"3">>, <<"5">> >>, << <<"3">>, <<"5">>, <<"7">> >>,
                    << <<"2", "3", "5", "3", "8", "8", "8">>, <<"0", "1", "3", "2", "7", "5", "9">> >>},
   Status : {0, 2}]

\* Monitors with an int field beyond 2147483647: 2^31 and 2^53, which a
\* float64 holds, 2^53 + 1, 2^53 + 3 and 2^63 - 1, which it does not
WideMonitors ==
  LET m == Mon(7, <<"n">>, <<"u">>, << <<"3">>, <<"5">> >>)
  IN {WithInt(m, "SubType", WideInt(FALSE, Pow2(31))),
      WithInt(m, "Status", WideInt(FALSE, Pow2(53))),
      WithInt(m, "Port", WideInt(FALSE, AddDigits(Pow2(53), <<"1">>, 0))),
      WithInt(m, "Type", WideInt(FALSE, AddDigits(Pow2(53), <<"3">>, 0))),
      WithInt(m, "ID", WideInt(FALSE, SubDigits(Pow2(63), <<"1">>, 0)))}

CodecMonitors == SmallMonitors \cup WideMonitors

CodecTargets == {ZeroMonitor, Mon(9, <<"t">>, <<"v">>, << <<"8">> >>)}

NoDecode == [err |-> NoErr, m |-> ZeroMonitor]

CodecInit ==
  /\ kPhase = "start"
  /\ kMon = ZeroMonitor
  /\ kWire = EmptyData
  /\ kTarget = ZeroMonitor
  /\ kOut = NoDecode
  /\ kForms = NoForms

\* json.Marshal(m)
Encode ==
  /\ kPhase = "start"
  /\ \E m \in CodecMonitors :
       /\ kMon' = m
       /\ kWire' = ObjData(MarshalJSON(m))
  /\ kPhase' = "encoded"
  /\ UNCHANGED <<kTarget, kOut, kForms>>

\* json.Unmarshal(bytes, &target)
Decode ==
  /\ kPhase = "encoded"
  /\ \E t \in CodecTargets :
       /\ kTarget' = t
       /\ kOut' = UnmarshalJSON(kWire, t)
  /\ kPhase' = "decoded"
  /\ UNCHANGED <<kMon, kWire, kForms>>

\* the forms in which the service sends sub_type, keyword_type or port, and
\* others: val is the integer the form stands for.  widedigits and wideint
\* are 2^53 + 1, overdigits is 2^63 and overint 2^63 - 1, the largest int
FieldForms ==
  [absent |-> [v |-> JNull, val |-> SmallInt(0)],
   empty |-> [v |-> JStr(<<>>), val |-> SmallInt(0)],
   digits |-> [v |-> JStr(<<"8", "0">>), val |-> SmallInt(80)],
   zerodigits |-> [v |-> JStr(<<"0", "7">>), val |-> SmallInt(7)],
   int |-> [v |-> JNum(443), val |-> SmallInt(443)],
   widedigits |-> [v |-> JStr(AddDigits(Pow2(53), <<"1">>, 0)),
                   val |-> WideInt(FALSE, AddDigits(Pow2(53), <<"1">>, 0))],
   overdigits |-> [v |-> JStr(Pow2(63)), val |-> WideInt(FALSE, Pow2(63))],
   wideint |-> [v |-> JBig(1), val |-> WideInt(FALSE, AddDigits(Pow2(53), <<"1">>, 0))],
   overint |-> [v |-> JFloat(FALSE, StripTrailingZeros(SubDigits(Pow2(63), <<"1">>, 0)), 19),
                val |-> WideInt(FALSE, SubDigits(Pow2(63), <<"1">>, 0))],
   word |-> [v |-> JStr(<<"x">>), val |-> SmallInt(0)],
   bool |-> [v |-> JBool(TRUE), val |-> SmallInt(0)],
   null |-> [v |-> JNull, val |-> SmallInt(0)]]

\* a getMonitors payload for one monitor, its three fields in the forms given
WirePayload(st, kt, port) ==
  LET base == [x \in {Txt_id, Txt_friendly_name, Txt_url, Txt_type, Txt_status} |->
                 CASE x = Txt_id -> JNum(7)
                   [] x = Txt_friendly_name -> JStr(<<"n">>)
                   [] x = Txt_url -> JStr(<<"u">>)
                   [] x = Txt_type -> JNum(TypeHTTP)
                   [] x = Txt_status -> JNum(2)]
      with(obj, key, form) == IF form = "absent" THEN obj ELSE Put(obj, key, FieldForms[form].v)
  IN with(with(with(base, Txt_sub_type, st), Txt_keyword_type, kt), Txt_port, port)

\* m.UnmarshalJSON(payload)
DecodeWire ==
  /\ kPhase = "start"
  /\ \E st, kt, port \in DOMAIN FieldForms, t \in CodecTargets :
       /\ kForms' = [sub_type |-> st, keyword_type |-> kt, port |-> port]
       /\ kWire' = ObjData(WirePayload(st, kt, port))
       /\ kTarget' = t
       /\ kOut' = UnmarshalJSON(ObjData(WirePayload(st, kt, port)), t)
  /\ kPhase' = "parsed"
  /\ UNCHANGED kMon

CodecReset ==
  /\ kPhase \in {"decoded", "parsed"}
  /\ kForms' = NoForms
  /\ kPhase' = "start"
  /\ kMon' = ZeroMonitor
  /\ kWire' = EmptyData
  /\ kTarget' = ZeroMonitor
  /\ kOut' = NoDecode

CodecNext == Encode \/ Decode \/ DecodeWire \/ CodecReset

(***************************************************************************)
(* One Client creating, getting and deleting monitors on the storing       *)
(* backend, one call after another.                                        *)
(*   sCreated    the IDs CreateMonitor returned with a nil error           *)
(*   sDelCalled  the IDs DeleteMonitor was called with                     *)
(*   sDeleted    the IDs for which DeleteMonitor returned nil              *)
(***************************************************************************)
VARIABLES sCreated, sDelCalled, sDeleted

storeVars == <<sCreated, sDelCalled, sDeleted>>

\* how many monitors the callers create
MaxCreates == 2

\* the IDs asked for: a monitor of the initial store and the created ones
StoreIDs == {5} \cup (FirstNewID .. (FirstNewID + MaxCreates - 1))

StoreInit ==
  /\ sCreated = {}
  /\ sDelCalled = {}
  /\ sDeleted = {}

StoreCreate ==
  /\ nextID < FirstNewID + MaxCreates
  /\ \E m \in EnsureArgs : Begin(Op("CreateMonitor", 0, <<>>, m, EmptyData))
  /\ UNCHANGED <<store, nextID, storeVars>>

StoreGet ==
  /\ \E id \in StoreIDs : Begin(Op("GetMonitor", id, <<>>, ZeroMonitor, EmptyData))
  /\ UNCHANGED <<store, nextID, storeVars>>

StoreDelete ==
  /\ \E id \in StoreIDs :
       /\ Begin(Op("DeleteMonitor", id, <<>>, ZeroMonitor, EmptyData))
       /\ sDelCalled' = sDelCalled \cup {id}
  /\ UNCHANGED <<store, nextID, sCreated, sDeleted>>

\* the request in flight is answered and the operation returns
StoreAnswer ==
  /\ cPhase = "sent"
  /\ \E answer \in CreateAnswers :
       LET h == Handle(cReq, store, nextID)
           resp == AnswerResponse(answer, cReq, store, nextID)
           rcv == MakeAPICallReceive(resp, client)
           res == OpResult(cOp, rcv.err, rcv.r)
       IN /\ store' = (IF Changes(answer) THEN h.store ELSE store)
          /\ nextID' = (IF Changes(answer) THEN h.nextID ELSE nextID)
          /\ cResp' = resp
          /\ cSink' = cSink \o rcv.sink
          /\ cOut' = [rcv EXCEPT !.sink = cSink \o rcv.sink]
          /\ cResult' = res
          /\ cPhase' = "done"
          /\ sCreated' = (IF cOp.name = "CreateMonitor" /\ res.err = NoErr
                          THEN sCreated \cup {res.id} ELSE sCreated)
          /\ sDeleted' = (IF cOp.name = "DeleteMonitor" /\ res.err = NoErr
                          THEN sDeleted \cup {cOp.id} ELSE sDeleted)
  /\ UNCHANGED <<client, cOp, cReq, cRequests, sDelCalled>>

StoreNextCall == NextCall /\ UNCHANGED <<store, nextID, storeVars>>

StoreNext == StoreCreate \/ StoreGet \/ StoreDelete \/ StoreAnswer \/ StoreNextCall

(***************************************************************************)
(* The version of the client whose Debug field is a bool and whose         *)
(* requests are form-encoded.  The URL is the constant                     *)
(* https://api.uptimerobot.com/v2/<verb> and the body a strings.Reader, so *)
(* neither http.NewRequest nor httputil.DumpRequestOut fails.              *)
(***************************************************************************)
FormKeys(params) == {Txt_api_key, Txt_format} \cup DOMAIN params

\* url.Values after form.Add of api_key, format and every parameter
FormValues(params, apiKey) ==
  [k \in FormKeys(params) |->
     (IF k = Txt_api_key THEN <<apiKey>> ELSE IF k = Txt_format THEN <<Txt_json>> ELSE <<>>)
     \o (IF k \in DOMAIN params THEN <<params[k]>> ELSE <<>>)]

FormRequest(verb, form) ==
  [method |-> "POST", path |-> <<"/v2/", verb>>, contentType |-> "application/x-www-form-urlencoded",
   verb |-> verb, body |-> [kind |-> "form", obj |-> form]]

\* a MakeAPICall that prints the request and sends it all the same
MakeAPICallForm_DumpAndSend(verb, params, c) ==
  [err |-> NoErr, sent |-> TRUE,
   req |-> FormRequest(verb, FormValues(params, c.apiKey)),
   sink |-> IF c.Debug THEN <<"request">> ELSE <<>>]

\* MakeAPICall up to HTTPClient.Do; with Debug it prints the dump of the
\* request to the standard output and returns nil
MakeAPICallForm(verb, params, c) ==
  IF c.Debug
  THEN [err |-> NoErr, sent |-> FALSE, req |-> NoRequest, sink |-> <<"request">>]
  ELSE [err |-> NoErr, sent |-> TRUE,
        req |-> FormRequest(verb, FormValues(params, c.apiKey)), sink |-> <<>>]

\* MakeAPICall from the return of HTTPClient.Do: the body is decoded
\* whatever the status, then stat is tested
MakeAPICallFormReceive(resp) ==
  LET out(e, p, r) == [err |-> e, panic |-> p, r |-> r, sink |-> <<>>]
  IN IF resp.net = "fail" THEN out(Err("http"), FALSE, ZeroResponse)
     ELSE IF ~resp.readable THEN out(Err("decode"), FALSE, ZeroResponse)
     ELSE IF resp.body.json = "null" THEN out(NoErr, TRUE, ZeroResponse)
     ELSE IF resp.body.json # "object" THEN out(Err("decode"), FALSE, ZeroResponse)
     ELSE IF ~resp.body.typed THEN out(Err("decode"), FALSE, resp.body.r)
     ELSE IF resp.body.r.Stat # "ok" THEN out(APIErr(resp.body.r.Error), FALSE, resp.body.r)
     ELSE out(NoErr, FALSE, resp.body.r)

FormVerb(op) ==
  CASE op.name = "GetAccountDetails" -> "getAccountDetails"
    [] op.name = "GetAlertContacts" -> "getAlertContacts"
    [] op.name = "NewMonitor" -> "newMonitor"
    [] OTHER -> "getMonitors"

\* the Params each operation hands to MakeAPICall
FormParams(op) ==
  CASE op.name = "GetMonitorsBySearch" -> [k \in {Txt_search} |-> op.s]
    [] op.name = "NewMonitor" ->
         [k \in {Txt_friendly_name, Txt_url, Txt_type} |->
            IF k = Txt_friendly_name THEN op.m.FriendlyName
            ELSE IF k = Txt_url THEN op.m.URL ELSE FormatInt(IntField(op.m, "Type"))]
    [] OTHER -> [k \in {} |-> <<>>]

\* what each operation returns, given MakeAPICall's error and the Response
FormOpResult(op, err, r) ==
  IF err # NoErr THEN Failed(err)
  ELSE CASE op.name = "GetAccountDetails" -> Result(NoErr, 0, ZeroMonitor, <<>>, r.Account, <<>>)
         [] op.name \in {"GetMonitors", "GetMonitorsBySearch"} -> Result(NoErr, 0, ZeroMonitor, r.Monitors, 0, <<>>)
         [] op.name = "GetAlertContacts" -> Result(NoErr, 0, ZeroMonitor, <<>>, 0, r.AlertContacts)
         [] OTHER -> Result(NoErr, 0, r.Monitor, <<>>, 0, <<>>)

\* the backend reads the first value of each form key
FormHandle(req, st, id) ==
  IF req.verb = "newMonitor" \/ Txt_search \in DOMAIN req.body.obj
  THEN Handle([req EXCEPT !.body = ObjData([k \in DOMAIN req.body.obj |-> JStr(req.body.obj[k][1])])], st, id)
  ELSE [store |-> st, nextID |-> id,
        body |-> OkResponseBody([ZeroResponse EXCEPT !.Account = 1, !.Monitors = st])]

FormAnswers == {"served", "apifail", "null", "transport", "lost"}

FormAnswerResponse(answer, req, st, id) ==
  CASE answer = "served" -> HTTPResp("ok", StatusOK, TRUE, FormHandle(req, st, id).body)
    [] answer = "apifail" ->
         HTTPResp("ok", StatusOK, TRUE, Body("object", TRUE, [ZeroResponse EXCEPT !.Stat = "fail", !.Error = "e1"]))
    [] answer = "null" -> HTTPResp("ok", StatusOK, TRUE, Body("null", TRUE, ZeroResponse))
    [] OTHER -> HTTPResp("fail", 0, FALSE, Body("malformed", FALSE, ZeroResponse))

\* the monitors NewMonitor is given: one has a Type beyond 2147483647
FormMonitors == EnsureArgs \cup {WithInt(Mon(0, <<"n">>, URL_ab, <<>>), "Type", WideID)}

FormClients == {DefaultClient, [DefaultClient EXCEPT !.Debug = TRUE]}

FormInit ==
  /\ client \in FormClients
  /\ cPhase = "idle"
  /\ cOp = NoOp
  /\ cReq = NoRequest
  /\ cRequests = 0
  /\ cSink = <<>>
  /\ cResp = NoResp
  /\ cOut = NoOut
  /\ cResult = NoResult

\* the operation op is called: it runs up to HTTPClient.Do, or returns
FormBegin(op) ==
  /\ cPhase = "idle"
  /\ LET snd == MakeAPICallForm(FormVerb(op), FormParams(op), client)
     IN /\ cOp' = op
        /\ cReq' = snd.req
        /\ cRequests' = (IF snd.sent THEN 1 ELSE 0)
        /\ cSink' = snd.sink
        /\ cResp' = NoResp
        /\ cOut' = [NoOut EXCEPT !.err = snd.err, !.sink = snd.sink]
        /\ cResult' = (IF snd.sent THEN NoResult ELSE FormOpResult(op, snd.err, ZeroResponse))
        /\ cPhase' = (IF snd.sent THEN "sent" ELSE "done")
  /\ UNCHANGED <<client, store, nextID>>

FormGetAccountDetails == FormBegin(Op("GetAccountDetails", 0, <<>>, ZeroMonitor, EmptyData))

GetMonitors == FormBegin(Op("GetMonitors", 0, <<>>, ZeroMonitor, EmptyData))

GetMonitorsBySearch == \E s \in URLs : FormBegin(Op("GetMonitorsBySearch", 0, s, ZeroMonitor, EmptyData))

GetAlertContacts == FormBegin(Op("GetAlertContacts", 0, <<>>, ZeroMonitor, EmptyData))

NewMonitor ==
  /\ nextID < FirstNewID + MaxCreates
  /\ \E m \in FormMonitors : FormBegin(Op("NewMonitor", 0, <<>>, m, EmptyData))

\* HTTPClient.Do returns: MakeAPICall decodes, the operation returns
FormAnswer ==
  /\ cPhase = "sent"
  /\ \E answer \in FormAnswers :
       LET h == FormHandle(cReq, store, nextID)
           resp == FormAnswerResponse(answer, cReq, store, nextID)
           rcv == MakeAPICallFormReceive(resp)
       IN /\ store' = (IF Changes(answer) THEN h.store ELSE store)
          /\ nextID' = (IF Changes(answer) THEN h.nextID ELSE nextID)
          /\ cResp' = resp
          /\ cOut' = [rcv EXCEPT !.sink = cSink]
          /\ cResult' = (IF rcv.panic THEN NoResult ELSE FormOpResult(cOp, rcv.err, rcv.r))
          /\ cPhase' = (IF rcv.panic THEN "panicked" ELSE "done")
  /\ UNCHANGED <<client, cOp, cReq, cRequests, cSink>>

FormNextCall == NextCall /\ UNCHANGED <<store, nextID>>

FormNext ==
  \/ FormGetAccountDetails
  \/ GetMonitors
  \/ GetMonitorsBySearch
  \/ GetAlertContacts
  \/ NewMonitor
  \/ FormAnswer
  \/ FormNextCall

(***************************************************************************)
(* GetMonitorsChan and the monitors command, in the version of the client  *)
(* that pages with form-encoded requests.                                  *)
(*   gConsumer  who reads the channels: "command" is the monitors command  *)
(*              (a goroutine ranging over Monitors and printing, the main  *)
(*              goroutine selecting on done and Error), "drain" a consumer *)
(*              that ranges over Monitors and never receives from Error    *)
(*   gPc        the goroutine of GetMonitorsChan: "idle" (not started),    *)
(*              "call" (inside MakeAPICall), "sendMon" (in the loop that   *)
(*              sends the monitors of a page), "sendErr" (at a send on     *)
(*              Error), "break" (its send on Error was received),          *)
(*              "closed" (returned, Monitors closed), "panicking"          *)
(*              (MakeAPICall panicked and the deferred close of Monitors   *)
(*              ran; the runtime has not yet ended the process),           *)
(*              "panicked" (the runtime ended the process)                 *)
(*   gReq       the page request in flight                                 *)
(*   gOffset    the variable offset                                        *)
(*   gQueue     the monitors of the current page not yet sent              *)
(*   gR         the Response of the current page                           *)
(*   gErrVal    the error being sent on Error                              *)
(*   gLog       the responses HTTPClient.Do returned, in order             *)
(*   gOffsets   the offsets requested, in order                            *)
(*   gDelivered the monitors received from Monitors, in order              *)
(*   gPrinted   the monitors printed, in order                             *)
(*   gPrinter   the ranging goroutine: "recv" (at the receive), "print"    *)
(*              (holds a monitor it has not printed), "done" (the range    *)
(*              ended and done is closed)                                  *)
(*   gMain      the main goroutine: "select", "logfatal" (it received from *)
(*              Error and is in log.Fatal), "fatal" (log.Fatal wrote the   *)
(*              error and the process exited), "returned" (it received     *)
(*              from done and the command returned), "exited" (the process *)
(*              exited after the return), "panicked" (the runtime reported *)
(*              the panic of a goroutine and the process exited)           *)
(*   gFatal     the error main received from Error, which log.Fatal        *)
(*              reports                                                    *)
(***************************************************************************)
VARIABLES gConsumer, gPc, gReq, gOffset, gQueue, gR, gErrVal, gLog, gOffsets,
          gDelivered, gPrinted, gPrinter, gMain, gFatal

chanVars == <<gConsumer, gPc, gReq, gOffset, gQueue, gR, gErrVal, gLog, gOffsets,
              gDelivered, gPrinted, gPrinter, gMain, gFatal>>

\* Params{"offset": strconv.Itoa(offset), "limit": strconv.Itoa(limit)}
PageFormParams(offset, limit) ==
  [k \in {Txt_offset, Txt_limit} |-> IF k = Txt_offset THEN Itoa(offset) ELSE Itoa(limit)]

PageFormRequest(offset) ==
  MakeAPICallForm("getMonitors", PageFormParams(offset, PageLimit), DefaultClient).req

FormOffset(req) == Atoi(req.body.obj[Txt_offset][1]).v

\* a loop that does not send the first monitor of a page
ChanQueue_SkipFirst(monitors) == IF Len(monitors) = 0 THEN <<>> ELSE Tail(monitors)

\* for _, m := range r.Monitors { out.Monitors <- m }
ChanQueue(monitors) == monitors

RECURSIVE GetMonitorsLoop(_, _, _, _, _)
\* the slice-returning GetMonitors run on the responses resps, from its
\* i-th request on: the monitors and err it returns and the offsets it
\* requested; waiting tells that it asked for a response resps lacks, panic
\* that MakeAPICall panicked, so that GetMonitors returns nothing (monitors
\* is then what it had accumulated)
GetMonitorsLoop(resps, i, offset, monitors, offsets) ==
  LET asked == Append(offsets, offset)
      out(ms, e, w, p) ==
        [monitors |-> ms, err |-> e, offsets |-> asked, used |-> i, waiting |-> w, panic |-> p]
  IN IF i > Len(resps) THEN out(monitors, NoErr, TRUE, FALSE)
     ELSE LET rcv == MakeAPICallFormReceive(resps[i])
              next == NextOffset(rcv.r, PageLimit, offset)
          IN IF rcv.panic THEN out(monitors, NoErr, FALSE, TRUE)
             ELSE IF rcv.err # NoErr THEN out(monitors, ErrAfterFailedCall(NoErr, rcv.err), FALSE, FALSE)
             ELSE IF rcv.r.Error # "none"
             THEN out(Accumulate(monitors, rcv.r.Monitors), ResponseErr(rcv.r.Error), FALSE, FALSE)
             ELSE IF MorePages(next, PageLimit, rcv.r.Pagination.Total)
             THEN GetMonitorsLoop(resps, i + 1, next, Accumulate(monitors, rcv.r.Monitors), asked)
             ELSE out(Accumulate(monitors, rcv.r.Monitors), NoErr, FALSE, FALSE)

GetMonitorsSlice(resps) == GetMonitorsLoop(resps, 1, 0, <<>>, <<>>)

\* the process of the command is running
Alive == gMain \in {"select", "logfatal", "returned"}

\* close(out.Monitors) has run, at the return of the goroutine or while its
\* panic unwinds
MonitorsClosed(pc) == pc \in {"closed", "panicking", "panicked"}

ChanInit ==
  /\ gConsumer \in {"command", "drain"}
  /\ gPc = "idle"
  /\ gReq = NoRequest
  /\ gOffset = 0
  /\ gQueue = <<>>
  /\ gR = ZeroResponse
  /\ gErrVal = NoErr
  /\ gLog = <<>>
  /\ gOffsets = <<>>
  /\ gDelivered = <<>>
  /\ gPrinted = <<>>
  /\ gPrinter = "recv"
  /\ gMain = "select"
  /\ gFatal = NoErr

\* GetMonitorsChan starts its goroutine, which makes the first page request
GetMonitorsChan ==
  /\ Alive
  /\ gPc = "idle"
  /\ gPc' = "call"
  /\ gReq' = PageFormRequest(0)
  /\ gOffsets' = <<0>>
  /\ UNCHANGED <<gConsumer, gOffset, gQueue, gR, gErrVal, gLog, gDelivered, gPrinted, gPrinter, gMain, gFatal>>

\* HTTPClient.Do returns in the goroutine: when MakeAPICall panics the
\* deferred close(out.Monitors) runs while the panic unwinds; on an error
\* of MakeAPICall the goroutine goes to the send on Error, otherwise to the
\* loop over r.Monitors
ChanDoReturns ==
  /\ Alive
  /\ gPc = "call"
  /\ Len(gLog) < MaxPages
  /\ \E answer \in MetaAnswers, off \in MetaOffsets, total \in MetaTotals,
        monitors \in MetaMonitors(Len(gLog) + 1) :
       LET body == Body("object", TRUE,
                        [ZeroResponse EXCEPT !.Stat = "ok", !.Monitors = monitors,
                           !.Pagination = [Offset |-> off, Limit |-> PageLimit, Total |-> total]])
           resp == MetaResponse(answer, body)
           rcv == MakeAPICallFormReceive(resp)
       IN /\ gLog' = Append(gLog, resp)
          /\ IF rcv.panic
             THEN /\ gPc' = "panicking"
                  /\ UNCHANGED <<gQueue, gR, gErrVal, gMain>>
             ELSE IF rcv.err # NoErr
             THEN /\ gPc' = "sendErr"
                  /\ gErrVal' = rcv.err
                  /\ UNCHANGED <<gQueue, gR, gMain>>
             ELSE /\ gPc' = "sendMon"
                  /\ gQueue' = ChanQueue(rcv.r.Monitors)
                  /\ gR' = rcv.r
                  /\ UNCHANGED <<gErrVal, gMain>>
  /\ gReq' = NoRequest
  /\ UNCHANGED <<gConsumer, gOffset, gOffsets, gDelivered, gPrinted, gPrinter, gFatal>>

\* the runtime reports the panic of the goroutine and ends the process
ChanPanicExit ==
  /\ Alive
  /\ gPc = "panicking"
  /\ gPc' = "panicked"
  /\ gMain' = "panicked"
  /\ UNCHANGED <<gConsumer, gReq, gOffset, gQueue, gR, gErrVal, gLog, gOffsets, gDelivered, gPrinted, gPrinter, gFatal>>

\* out.Monitors <- m meets the receive of the ranging goroutine
ChanSendMonitor ==
  /\ Alive
  /\ gPc = "sendMon"
  /\ gQueue # <<>>
  /\ gPrinter = "recv"
  /\ gDelivered' = Append(gDelivered, Head(gQueue))
  /\ gQueue' = Tail(gQueue)
  /\ gPrinter' = "print"
  /\ UNCHANGED <<gConsumer, gPc, gReq, gOffset, gR, gErrVal, gLog, gOffsets, gPrinted, gMain, gFatal>>

\* the monitors of the page are sent: the goroutine goes to the send on
\* Error, makes the next page request, or returns and closes Monitors
ChanPageSent ==
  /\ Alive
  /\ gPc = "sendMon"
  /\ gQueue = <<>>
  /\ LET offset == NextOffset(gR, PageLimit, gOffset)
     IN IF gR.Error # "none"
        THEN /\ gPc' = "sendErr"
             /\ gErrVal' = ResponseErr(gR.Error)
             /\ UNCHANGED <<gOffset, gReq, gOffsets>>
        ELSE /\ gOffset' = offset
             /\ UNCHANGED gErrVal
             /\ IF MorePages(offset, PageLimit, gR.Pagination.Total)
                THEN /\ gPc' = "call"
                     /\ gReq' = PageFormRequest(offset)
                     /\ gOffsets' = Append(gOffsets, offset)
                ELSE /\ gPc' = "closed"
                     /\ UNCHANGED <<gReq, gOffsets>>
  /\ UNCHANGED <<gConsumer, gQueue, gR, gLog, gDelivered, gPrinted, gPrinter, gMain, gFatal>>

\* out.Error <- err meets the receive in the select of the main goroutine:
\* case err := <-result.Error
ChanSendError ==
  /\ gMain = "select"
  /\ gConsumer = "command"
  /\ gPc = "sendErr"
  /\ gMain' = "logfatal"
  /\ gFatal' = gErrVal
  /\ gPc' = "break"
  /\ UNCHANGED <<gConsumer, gReq, gOffset, gQueue, gR, gErrVal, gLog, gOffsets, gDelivered, gPrinted, gPrinter>>

\* break after the send on Error: the goroutine returns and the deferred
\* close(out.Monitors) runs
ChanBreak ==
  /\ Alive
  /\ gPc = "break"
  /\ gPc' = "closed"
  /\ UNCHANGED <<gConsumer, gReq, gOffset, gQueue, gR, gErrVal, gLog, gOffsets, gDelivered, gPrinted, gPrinter, gMain, gFatal>>

\* log.Fatal(err): the error is written and os.Exit(1) ends the process
LogFatal ==
  /\ gMain = "logfatal"
  /\ gMain' = "fatal"
  /\ UNCHANGED <<gConsumer, gPc, gReq, gOffset, gQueue, gR, gErrVal, gLog, gOffsets, gDelivered, gPrinted, gPrinter, gFatal>>

\* fmt.Println(m) in the ranging goroutine
PrintMonitor ==
  /\ Alive
  /\ gPrinter = "print"
  /\ gPrinted' = Append(gPrinted, gDelivered[Len(gDelivered)])
  /\ gPrinter' = "recv"
  /\ UNCHANGED <<gConsumer, gPc, gReq, gOffset, gQueue, gR, gErrVal, gLog, gOffsets, gDelivered, gMain, gFatal>>

\* for m := range result.Monitors: the loop ends when the goroutine is back
\* at the receive and Monitors is closed
RangeOver(pc, printer) == MonitorsClosed(pc) /\ printer = "recv"

\* the range over Monitors sees the channel closed: close(done)
RangeEnds ==
  /\ Alive
  /\ RangeOver(gPc, gPrinter)
  /\ gPrinter' = "done"
  /\ UNCHANGED <<gConsumer, gPc, gReq, gOffset, gQueue, gR, gErrVal, gLog, gOffsets, gDelivered, gPrinted, gMain, gFatal>>

\* case <-done: return
MainReturns ==
  /\ gMain = "select"
  /\ gConsumer = "command"
  /\ gPrinter = "done"
  /\ gMain' = "returned"
  /\ UNCHANGED <<gConsumer, gPc, gReq, gOffset, gQueue, gR, gErrVal, gLog, gOffsets, gDelivered, gPrinted, gPrinter, gFatal>>

\* the command has returned: Execute and main return and the process exits
MainExits ==
  /\ gMain = "returned"
  /\ gMain' = "exited"
  /\ UNCHANGED <<gConsumer, gPc, gReq, gOffset, gQueue, gR, gErrVal, gLog, gOffsets, gDelivered, gPrinted, gPrinter, gFatal>>

ChanNext ==
  \/ GetMonitorsChan
  \/ ChanDoReturns
  \/ ChanSendMonitor
  \/ ChanPageSent
  \/ ChanPanicExit
  \/ ChanSendError
  \/ ChanBreak
  \/ LogFatal
  \/ PrintMonitor
  \/ RangeEnds
  \/ MainReturns
  \/ MainExits

(***************************************************************************)
(* The specifications.  Each one runs one part of the library; the state   *)
(* of the other parts stays as it is at construction.                      *)
(***************************************************************************)
vars == <<callVars, pageVars, ensureVars, codecVars, storeVars, chanVars>>

CallOff ==
  /\ client = DefaultClient
  /\ cPhase = "idle"
  /\ cOp = NoOp
  /\ cReq = NoRequest
  /\ cRequests = 0
  /\ cSink = <<>>
  /\ cResp = NoResp
  /\ cOut = NoOut
  /\ cResult = NoResult

PageOff ==
  /\ pTotal = 0
  /\ pPhase = "idle"
  /\ pOffset = 0
  /\ pMonitors = <<>>
  /\ pErr = NoErr
  /\ pReq = NoRequest
  /\ pCallErr = NoErr
  /\ pLog = <<>>
  /\ pInFlight = 0

EnsureOff ==
  /\ store = <<>>
  /\ eInitial = <<>>
  /\ nextID = FirstNewID
  /\ ePc = [p \in Procs |-> "idle"]
  /\ eReq = [p \in Procs |-> NoRequest]
  /\ eResp = [p \in Procs |-> NoResp]
  /\ eCur = [p \in Procs |-> NoCall]
  /\ eReturned = <<>>
  /\ eNewCalls = [u \in URLs |-> 0]
  /\ eOverlap = FALSE
  /\ eFailure = FALSE

ChanOff ==
  /\ gConsumer = "command"
  /\ gPc = "idle"
  /\ gReq = NoRequest
  /\ gOffset = 0
  /\ gQueue = <<>>
  /\ gR = ZeroResponse
  /\ gErrVal = NoErr
  /\ gLog = <<>>
  /\ gOffsets = <<>>
  /\ gDelivered = <<>>
  /\ gPrinted = <<>>
  /\ gPrinter = "recv"
  /\ gMain = "select"
  /\ gFatal = NoErr

\* one Client making one call after another
Init == CallInit /\ PageOff /\ EnsureOff /\ CodecInit /\ StoreInit /\ ChanOff

Next == CallNext /\ UNCHANGED <<pageVars, ensureVars, codecVars, storeVars, chanVars>>

Spec == Init /\ [][Next]_vars

\* AllMonitors against a paging backend
InitPage == PageInit /\ CallOff /\ EnsureOff /\ CodecInit /\ StoreInit /\ ChanOff

NextPage == PageNext /\ UNCHANGED <<callVars, ensureVars, codecVars, storeVars, chanVars>>

SpecPage == InitPage /\ [][NextPage]_vars

\* AllMonitors against a backend that reports any pagination
InitMeta == PageOff /\ CallOff /\ EnsureOff /\ CodecInit /\ StoreInit /\ ChanOff

NextMeta == MetaNext /\ UNCHANGED <<callVars, ensureVars, codecVars, storeVars, chanVars>>

SpecMeta == InitMeta /\ [][NextMeta]_vars

\* GetMonitorsChan and its consumers
InitChan == ChanInit /\ CallOff /\ PageOff /\ EnsureOff /\ CodecInit /\ StoreInit

NextChan == ChanNext /\ UNCHANGED <<callVars, pageVars, ensureVars, codecVars, storeVars>>

SpecChan == InitChan /\ [][NextChan]_vars

\* the same, where a goroutine that can take a step takes one
SpecChanFair == SpecChan /\ WF_vars(NextChan)

\* concurrent callers of EnsureMonitor against a storing backend
InitEnsure == EnsureInit /\ CallOff /\ PageOff /\ CodecInit /\ StoreInit /\ ChanOff

NextEnsure == EnsureNext /\ UNCHANGED <<callVars, pageVars, codecVars, storeVars, chanVars>>

SpecEnsure == InitEnsure /\ [][NextEnsure]_vars

\* the Monitor codec
InitCodec == CodecInit /\ CallOff /\ PageOff /\ EnsureOff /\ StoreInit /\ ChanOff

NextCodec == CodecNext /\ UNCHANGED <<callVars, pageVars, ensureVars, storeVars, chanVars>>

SpecCodec == InitCodec /\ [][NextCodec]_vars

\* CreateMonitor, GetMonitor and DeleteMonitor against a storing backend
InitStore == StoreInit /\ CallOff /\ PageOff /\ EnsureInit /\ CodecInit /\ ChanOff

NextStore ==
  StoreNext /\ UNCHANGED <<pageVars, codecVars, ePc, eReq, eResp, eCur, eReturned, eNewCalls, eInitial, eOverlap, eFailure, chanVars>>

SpecStore == InitStore /\ [][NextStore]_vars

\* the bool-Debug version of the client against a storing backend
InitForm == FormInit /\ PageOff /\ EnsureInit /\ CodecInit /\ StoreInit /\ ChanOff

NextForm ==
  FormNext /\ UNCHANGED <<pageVars, codecVars, storeVars, ePc, eReq, eResp, eCur, eReturned, eNewCalls, eInitial, eOverlap, eFailure, chanVars>>

SpecForm == InitForm /\ [][NextForm]_vars

(***************************************************************************)
(* Properties.                                                             *)
(***************************************************************************)
AllPagesServed == \A i \in 1..Len(pLog) : pLog[i].answer = "page"

PagesNeeded(total) == IF total = 0 THEN 1 ELSE (total + PageLimit - 1) \div PageLimit

LoggedOffsets == [i \in 1..Len(pLog) |-> pLog[i].offset]

\* C1: when the backend holds pTotal monitors and answers every page request
\* with the page asked for, echoing the offset and reporting total = pTotal,
\* AllMonitors returns the pTotal monitors, each once, in order, and has
\* requested the offsets 0, 50, 100, ... of the pages that hold them (two
\* requests and 100 monitors for pTotal = 100).
C1_AllMonitorsComplete ==
  (pPhase = "done" /\ AllPagesServed) =>
     /\ pErr = NoErr
     /\ pMonitors = [i \in 1..pTotal |-> BackendMonitor(i)]
     /\ LoggedOffsets = [i \in 1..PagesNeeded(pTotal) |-> PageLimit * (i - 1)]

RECURSIVE ServedPages(_, _)
ServedPages(log, total) ==
  IF Len(log) = 0 THEN <<>>
  ELSE ServedPages(SubSeq(log, 1, Len(log) - 1), total)
       \o (IF log[Len(log)].answer = "page"
           THEN PageOf(total, log[Len(log)].offset, log[Len(log)].limit)
           ELSE <<>>)

\* C2: when a page request of AllMonitors fails (MakeAPICall returns an
\* error), AllMonitors returns the monitors of the earlier pages together
\* with a non-nil error.
C2_PartialResultWithError ==
  (pPhase = "done" /\ pCallErr # NoErr) =>
     /\ pErr # NoErr
     /\ pMonitors = ServedPages(pLog, pTotal)

Within53(i) ==
  i.w = <<>> \/ CmpDigits(IF i.w[1] = "-" THEN Tail(i.w) ELSE i.w, Pow2(53)) <= 0

C3_WitnessWide ==
  /\ kPhase = "decoded"
  /\ IntField(kMon, "Port") = WideInt(FALSE, AddDigits(Pow2(53), <<"1">>, 0))
  /\ kOut.err = Err("type")

\* C4: when the backend at first holds no monitor matching a URL and no
\* request fails, at most one newMonitor call is issued for that URL, however
\* the EnsureMonitor calls for it interleave.
C4_AtMostOneCreate ==
  \A u \in URLs :
     (SearchStore(eInitial, u) = <<>> /\ ~eFailure) => eNewCalls[u] <= 1

\* C5: a call of EnsureMonitor whose search succeeds with a non-empty list
\* issues no newMonitor call and returns the ID of the first monitor of the
\* list; one whose search succeeds with an empty list issues exactly one
\* newMonitor call and, when that call succeeds, returns the ID of its
\* response.
C5_EnsureFindOrCreate ==
  \A p \in Procs :
     /\ eCur[p].newCalls <= 1
     /\ (eCur[p].searched /\ eCur[p].searchErr = NoErr /\ Len(eCur[p].found) > 0) =>
           /\ eCur[p].done
           /\ eCur[p].newCalls = 0
           /\ ResultID(eCur[p]) = IntField(eCur[p].found[1], "ID")
           /\ eCur[p].err = NoErr
     /\ (eCur[p].searched /\ eCur[p].searchErr = NoErr /\ Len(eCur[p].found) = 0) =>
           /\ eCur[p].newCalls = 1
           /\ (eCur[p].done /\ eCur[p].createErr = NoErr) =>
                 (ResultID(eCur[p]) = [v |-> eCur[p].respID, w |-> eCur[p].respWide] /\ eCur[p].err = NoErr)

C5_Witness ==
  \E p, q \in Procs :
     /\ eCur[p].done
     /\ Len(eCur[p].found) >= 1
     /\ eCur[p].found[1].FriendlyName # eCur[p].m.FriendlyName
     /\ eCur[p].found[1].URL # eCur[p].m.URL
     /\ eCur[p].id = eCur[p].found[1].ID
     /\ eCur[q].done
     /\ eCur[q].searched
     /\ Len(eCur[q].found) = 0
     /\ eCur[q].newCalls = 1
     /\ eCur[q].id = eCur[q].respID
     /\ eCur[q].id # 0

\* C6: a call of EnsureMonitor whose search fails returns the search's error
\* with ID 0 and issues no newMonitor call; one whose search finds nothing and
\* whose newMonitor call fails returns that call's error with ID 0.
C6_EnsureFailures ==
  \A p \in Procs :
     /\ (eCur[p].searched /\ eCur[p].searchErr # NoErr) =>
           /\ eCur[p].done
           /\ eCur[p].newCalls = 0
           /\ eCur[p].err = eCur[p].searchErr
           /\ ResultID(eCur[p]) = SmallInt(0)
     /\ (eCur[p].created /\ eCur[p].createErr # NoErr) =>
           /\ eCur[p].done
           /\ eCur[p].err = eCur[p].createErr
           /\ ResultID(eCur[p]) = SmallInt(0)

C6_Witness ==
  \E p, q \in Procs :
     /\ eCur[p].done
     /\ eCur[p].searchErr = APIErr("e1")
     /\ eCur[p].err = APIErr("e1")
     /\ eCur[q].done
     /\ eCur[q].searchErr = NoErr
     /\ eCur[q].created
     /\ eCur[q].createErr = Err("http")
     /\ eCur[q].err = Err("http")

\* the search for u returned exactly the monitors stored for u at the start
ExactSearch(u) == \A i \in 1..Len(eInitial) : Matches(eInitial[i], u) => eInitial[i].URL = u

Sequential == ~eOverlap /\ ~eFailure

\* C7: when EnsureMonitor is called for one URL any number of times, one call
\* after the other, with no request failing, against a backend whose search
\* for the URL returns the monitors stored for it, then after each call
\* exactly one monitor with that URL is stored and every call has returned
\* the ID the first call returned.
C7_EnsureIdempotent ==
  \A u \in URLs :
     (/\ Sequential
      /\ ExactSearch(u)
      /\ Len(eReturned) >= 1
      /\ \A i \in 1..Len(eReturned) : eReturned[i].url = u)
     => /\ Len(WithURL(store, u)) = 1
        /\ \A i \in 1..Len(eReturned) :
              /\ eReturned[i].err = NoErr
              /\ ResultID(eReturned[i]) = ResultID(eReturned[1])
              /\ ResultID(eReturned[i]) = IntField(WithURL(store, u)[1], "ID")

C7_Witness ==
  /\ Sequential
  /\ eInitial = <<>>
  /\ Len(eReturned) >= 3
  /\ \A i \in 1..Len(eReturned) : eReturned[i].url = URL_a /\ eReturned[i].id = FirstNewID
  /\ \E i \in 1..Len(eReturned) : eReturned[i].p # eReturned[1].p
  /\ Len(store) = 1

Delivered == cPhase = "done" /\ cRequests = 1 /\ cResp.net = "ok"

WellFormed(body) == body.json = "object" /\ body.typed

\* C8: a response with status 200 and a well-formed body whose stat is not
\* "ok" makes MakeAPICall return an API error that carries the body's error
\* payload; a response with status 404 makes it return the status error, never
\* an API error and never nil, whatever the body holds.
C8_ErrorClassification ==
  Delivered =>
     /\ (cResp.readable /\ cResp.status = StatusOK /\ WellFormed(cResp.body) /\ cResp.body.r.Stat # "ok")
           => cOut.err = APIErr(cResp.body.r.Error)
     /\ (cResp.status = 404) =>
           /\ cOut.err.kind \in {"status", "read", "dumpresponse"}
           /\ cResp.readable => cOut.err = StatusErr(404)

C8_Witness ==
  /\ Delivered
  /\ cResp.readable
  /\ cResp.status = 404
  /\ cResp.body = FailBody
  /\ cOut.err = StatusErr(404)
  /\ cResult.err = StatusErr(404)

Returned_ == cPhase \in {"done", "panicked"}

ReturnedNil == cPhase = "done" /\ cOut.err = NoErr

ExchangeOK == cRequests = 1 /\ cResp.net = "ok" /\ cResp.readable

\* C9 as stated: a call of MakeAPICall that returns, returns nil exactly when
\* the exchange succeeded with a 2xx status and a well-formed body with stat
\* "ok", and a non-nil error in every other case.
C9_NilIff2xxOk ==
  (cPhase = "done") =>
     LET ok == ExchangeOK /\ cResp.status >= 200 /\ cResp.status <= 299
               /\ WellFormed(cResp.body) /\ cResp.body.r.Stat = "ok"
     IN (cOut.err = NoErr) <=> ok

\* what the code does where C9 fails: MakeAPICall returns nil exactly when
\* the exchange succeeded with status 200 and a well-formed body with stat
\* "ok", so that a 201 with such a body is an error; it panics when the
\* request data or the body of a status-200 response is the JSON literal
\* null, and returns a non-nil error in every other case.
C9_NilIff200Ok ==
  Returned_ =>
     LET ok == ExchangeOK /\ cResp.status = StatusOK
               /\ WellFormed(cResp.body) /\ cResp.body.r.Stat = "ok"
         null == \/ RequestData(cOp).kind = "null"
                 \/ ExchangeOK /\ cResp.status = StatusOK /\ cResp.body.json = "null"
     IN /\ ReturnedNil <=> ok
        /\ (cPhase = "panicked") <=> null
        /\ (~ok /\ ~null) => (cPhase = "done" /\ cOut.err # NoErr)

\* a 201 with a well-formed body with stat "ok" was answered by the status
\* error
C9_Witness ==
  /\ cPhase = "done"
  /\ ExchangeOK
  /\ cResp.status = 201
  /\ cResp.body = OkBody
  /\ cOut.err = StatusErr(201)

\* C10 as stated: every call of MakeAPICall that has returned has made exactly
\* one HTTP request (here: with a client whose URL is valid and whose request
\* dump did not fail).
C10_ExactlyOneRequest ==
  (cPhase = "done" /\ client.URLValid /\ cOut.err # Err("dumprequest")) => cRequests = 1

\* a text without double quote, backslash and control character
PlainText(s) == \A i \in 1..Len(s) : s[i] \notin {Quote, "\\"} /\ ~IsControl(s[i])

Sendable ==
  /\ RequestData(cOp).kind \in {"empty", "object"}
  /\ client.URLValid
  /\ cOut.err # Err("dumprequest")

\* C10, amended: a call of MakeAPICall makes at most one HTTP request and
\* never a second one; it makes exactly one unless it stops before sending,
\* which it does when the request data is neither empty nor a JSON object,
\* when the request cannot be built from the client's URL, or when dumping the
\* request fails.  The request data of GetAccountDetails, GetMonitor,
\* AllAlertContacts, CreateMonitor, PauseMonitor, StartMonitor and
\* DeleteMonitor is always sendable.  That of SearchMonitors is sendable for
\* a search string without double quote, backslash and control character;
\* with one of these it is sendable only if the text the string is pasted
\* into still is a JSON object: an unpaired quote, a lone backslash or a tab
\* break it, while ","x":" leaves an object with a second member x.
C10_AtMostOneRequest ==
  (cPhase # "idle") =>
     /\ cRequests <= 1
     /\ (cRequests = 1) <=> Sendable
     /\ (cOp.name \in {"GetAccountDetails", "GetMonitor", "AllAlertContacts", "CreateMonitor",
                       "PauseMonitor", "StartMonitor", "DeleteMonitor"}
         /\ client.URLValid /\ ~client.Debug) => cRequests = 1
     /\ (cOp.name = "SearchMonitors" /\ client.URLValid /\ ~client.Debug) =>
           /\ PlainText(cOp.s) => cRequests = 1
           /\ (cOp.s \in {<<"a", Quote>>, <<"\\">>, <<"\t">>}) => cRequests = 0
           /\ (cOp.s = <<Quote, ",", Quote, "x", Quote, ":", Quote>>) =>
                 (cRequests = 1 /\ Has(cReq.body.obj, <<"x">>))

C10_Witness ==
  /\ cPhase = "done"
  /\ cOp.name = "SearchMonitors"
  /\ HasQuote(cOp.s)
  /\ client.URLValid
  /\ cRequests = 0
  /\ cOut.err = Err("decorate")
  /\ cResult.err = Err("decorate")

\* C11: every request MakeAPICall sends carries api_key equal to the client's
\* key and format "json", whatever the caller's data held under those names,
\* and every other member of the caller's data with its value unchanged.
C11_RequestDecorated ==
  (cRequests = 1) =>
     LET given == RequestData(cOp).obj
         sent == cReq.body.obj
     IN /\ cReq.body.kind = "object"
        /\ DOMAIN sent = (DOMAIN given) \cup {Txt_api_key, Txt_format}
        /\ sent[Txt_api_key] = JStr(client.apiKey)
        /\ sent[Txt_format] = JStr(Txt_json)
        /\ \A x \in (DOMAIN given) \ {Txt_api_key, Txt_format} : sent[x] = given[x]

\* the same without the clause that fails: the members that are not integers
\* above 2^53 are sent unchanged
C11_RequestDecoratedUpToFloat64 ==
  (cRequests = 1) =>
     LET given == RequestData(cOp).obj
         sent == cReq.body.obj
     IN /\ cReq.body.kind = "object"
        /\ DOMAIN sent = (DOMAIN given) \cup {Txt_api_key, Txt_format}
        /\ sent[Txt_api_key] = JStr(client.apiKey)
        /\ sent[Txt_format] = JStr(Txt_json)
        /\ \A x \in (DOMAIN given) \ {Txt_api_key, Txt_format} : sent[x] = ViaFloat64(given[x])

NumericFields == {"sub_type", "keyword_type", "port"}

Decoded(f) ==
  CASE f = "sub_type" -> IntField(kOut.m, "SubType")
    [] f = "keyword_type" -> IntField(kOut.m, "KeywordType")
    [] f = "port" -> IntField(kOut.m, "Port")

\* the forms C12 is about: absent, the empty string, strings of decimal
\* digits and JSON integers
LenientForms ==
  {"absent", "empty", "digits", "zerodigits", "int", "widedigits", "overdigits", "wideint", "overint"}

\* C12 as stated: when each of sub_type, keyword_type and port is absent, an
\* empty string, a string of decimal digits or a JSON integer, in any
\* combination, Monitor.UnmarshalJSON returns no error and each field holds
\* the integer its form stands for (0 for absent and for the empty string).
C12_LenientNumericFields ==
  (kPhase = "parsed" /\ \A f \in NumericFields : kForms[f] \in LenientForms) =>
     /\ kOut.err = NoErr
     /\ \A f \in NumericFields : Decoded(f) = FieldForms[kForms[f]].val
     /\ kOut.m.ID = 7
     /\ kOut.m.FriendlyName = <<"n">>

\* C12, amended: the same for strings of decimal digits of at most 2^63 - 1
\* and JSON integers of at most 2^53 in magnitude.  A string of digits above
\* 2^63 - 1 in any field is the error of strconv.Atoi; a JSON integer beyond
\* 2^53 is read through a float64: 2^53 + 1 decodes to 2^53 and 2^63 - 1 is
\* a type error.  An error leaves the target as it was.
C12_LenientWithinRange ==
  (kPhase = "parsed" /\ \A f \in NumericFields : kForms[f] \in LenientForms) =>
     /\ (\A f \in NumericFields : kForms[f] \notin {"overdigits", "overint"}) =>
           /\ kOut.err = NoErr
           /\ \A f \in NumericFields :
                 Decoded(f) = IF kForms[f] = "wideint" THEN WideInt(FALSE, Pow2(53))
                              ELSE FieldForms[kForms[f]].val
           /\ kOut.m.ID = 7
           /\ kOut.m.FriendlyName = <<"n">>
     /\ (\E f \in NumericFields : kForms[f] = "overdigits") =>
           (kOut.err = Err("atoi") /\ kOut.m = kTarget)
     /\ ((\E f \in NumericFields : kForms[f] = "overint")
          /\ (\A f \in NumericFields : kForms[f] # "overdigits")) =>
           (kOut.err = Err("type") /\ kOut.m = kTarget)

C12_Witness ==
  /\ kPhase = "parsed"
  /\ kForms = [sub_type |-> "empty", keyword_type |-> "zerodigits", port |-> "int"]
  /\ kTarget # ZeroMonitor
  /\ kOut.err = NoErr
  /\ kOut.m.SubType = 0
  /\ kOut.m.KeywordType = 7
  /\ kOut.m.Port = 443

\* a payload with a string of digits beyond 2^53 and a JSON integer beyond it
C12_WitnessWide ==
  /\ kPhase = "parsed"
  /\ kForms = [sub_type |-> "widedigits", keyword_type |-> "wideint", port |-> "digits"]
  /\ kOut.err = NoErr
  /\ Decoded("sub_type") = WideInt(FALSE, AddDigits(Pow2(53), <<"1">>, 0))
  /\ Decoded("keyword_type") = WideInt(FALSE, Pow2(53))

\* C13 as the specification states it: when any one of the three fields is a
\* non-numeric string, a boolean or null, Monitor.UnmarshalJSON returns an
\* error, whatever the other fields hold.
C13_ErrorOnAnyNonNumeric ==
  (kPhase = "parsed" /\ \E f \in NumericFields : kForms[f] \in {"word", "bool", "null"}) =>
     kOut.err # NoErr

\* C13 as the code has it: a non-numeric string or a boolean in any one of
\* the three fields makes Monitor.UnmarshalJSON return an error and leave its
\* target as it was, whatever the other fields hold; null is no error: the
\* field decodes to 0, as an absent one does.
C13_ErrorOnWordOrBool ==
  (kPhase = "parsed") =>
     /\ (\E f \in NumericFields : kForms[f] \in {"word", "bool"}) =>
           (kOut.err # NoErr /\ kOut.m = kTarget)
     /\ (\A f \in NumericFields : kForms[f] \notin {"word", "bool", "overdigits", "overint"}) =>
           /\ kOut.err = NoErr
           /\ \A f \in NumericFields : kForms[f] = "null" => Decoded(f) = SmallInt(0)

C13_Witness ==
  /\ kPhase = "parsed"
  /\ kForms = [sub_type |-> "int", keyword_type |-> "null", port |-> "bool"]
  /\ kTarget # ZeroMonitor
  /\ kOut.err = Err("type")
  /\ kOut.m = kTarget

\* the items of s that "-" separates
RECURSIVE SplitDash(_)
SplitDash(s) ==
  IF \A i \in 1..Len(s) : s[i] # "-" THEN <<s>>
  ELSE LET i == CHOOSE j \in 1..Len(s) : s[j] = "-" /\ \A h \in 1..(j - 1) : s[h] # "-"
       IN <<SubSeq(s, 1, i - 1)>> \o SplitDash(SubSeq(s, i + 1, Len(s)))

\* C14: the encoding of a Monitor holds alert_contacts as one string: for no
\* contacts the empty string, otherwise as many "-"-separated items as there
\* are contacts, item i being contact i followed by "_0_0"; ["3","5","7"]
\* gives "3_0_0-5_0_0-7_0_0" and ["2353888","0132759"] gives
\* "2353888_0_0-0132759_0_0".
C14_AlertContactEncoding ==
  (kPhase \in {"encoded", "decoded"}) =>
     LET ac == kWire.obj[Txt_alert_contacts]
         ids == kMon.AlertContacts
     IN /\ ac.k = "str"
        /\ (Len(ids) = 0) => ac.s = <<>>
        /\ (Len(ids) > 0) =>
              /\ Len(SplitDash(ac.s)) = Len(ids)
              /\ \A i \in 1..Len(ids) : SplitDash(ac.s)[i] = ids[i] \o <<"_", "0", "_", "0">>
        /\ (ids = << <<"3">>, <<"5">>, <<"7">> >>) => ac.s = <<"3", "_", "0", "_", "0", "-", "5", "_", "0", "_", "0", "-", "7", "_", "0", "_", "0">>
        /\ (ids = << <<"2", "3", "5", "3", "8", "8", "8">>, <<"0", "1", "3", "2", "7", "5", "9">> >>) => ac.s = <<"2", "3", "5", "3", "8", "8", "8", "_", "0", "_", "0", "-", "0", "1", "3", "2", "7", "5", "9", "_", "0", "_", "0">>

C14_Witness ==
  /\ kPhase = "encoded"
  /\ kMon.AlertContacts = << <<"2", "3", "5", "3", "8", "8", "8">>, <<"0", "1", "3", "2", "7", "5", "9">> >>
  /\ kWire.obj[Txt_alert_contacts] = JStr(<<"2", "3", "5", "3", "8", "8", "8", "_", "0", "_", "0", "-", "0", "1", "3", "2", "7", "5", "9", "_", "0", "_", "0">>)
  /\ kMon.ID = 7

\* the request data after decorateRequestData, for a client key
Decorated(obj) == Put(Put(obj, Txt_api_key, JStr(client.apiKey)), Txt_format, JStr(<<"j", "s", "o", "n">>))

\* C15: CreateMonitor sends at most one request, a POST to /v2/newMonitor
\* whose body is the encoded monitor with api_key and format added; when it
\* returns a nil error it has sent exactly one, and the ID it returns is the
\* one in the monitor field of the response (777810874 for the canned
\* response), whatever the ID of the monitor it was given.
C15_CreateMonitor ==
  (cPhase # "idle" /\ cOp.name = "CreateMonitor") =>
     /\ cRequests <= 1
     /\ (cRequests = 1) =>
           /\ cReq.method = "POST"
           /\ cReq.path = <<"/v2/", "newMonitor">>
           /\ cReq.body = ObjData(Decorated(MarshalJSON(cOp.m)))
     /\ (cRequests = 0) => cOut.err \in {Err("newrequest"), Err("dumprequest")}
     /\ (cPhase = "done" /\ cRequests = 1 /\ cOut.err = NoErr) =>
           /\ cResult.err = NoErr
           /\ ResultID(cResult) = IntField(cResp.body.r.Monitor, "ID")
           /\ (cResp.body = CannedCreateBody) => cResult.id = 777810874
     /\ (cPhase = "done" /\ cResult.err = NoErr) => (cRequests = 1 /\ cOut.err = NoErr)

C15_Witness ==
  /\ cPhase = "done"
  /\ cOp.name = "CreateMonitor"
  /\ cOp.m.ID = 7
  /\ cRequests = 1
  /\ cReq.body.obj[Txt_alert_contacts] = JStr(<<"3", "_", "0", "_", "0", "-", "5", "_", "0", "_", "0">>)
  /\ cResp.body = CannedCreateBody
  /\ cResult.err = NoErr
  /\ cResult.id = 777810874

\* C16: GetMonitor returns the not-found error exactly when MakeAPICall
\* succeeded and the list of monitors is empty; when the list is not empty
\* it returns the first monitor and a nil error; when MakeAPICall failed it
\* returns that error.
C16_GetMonitorNotFound ==
  (cPhase = "done" /\ cOp.name = "GetMonitor") =>
     /\ (cResult.err = Err("notfound")) <=> (cOut.err = NoErr /\ Len(cOut.r.Monitors) = 0)
     /\ (cOut.err = NoErr /\ Len(cOut.r.Monitors) > 0) =>
           (cResult.err = NoErr /\ cResult.monitor = cResp.body.r.Monitors[1])
     /\ (cOut.err # NoErr) => (cResult.err = cOut.err /\ cResult.monitor = ZeroMonitor)

C16_Witness ==
  /\ cPhase = "done"
  /\ cOp.name = "GetMonitor"
  /\ cOp.id = 7
  /\ cRequests = 1
  /\ cResp.status = StatusOK
  /\ cResp.body = Body("object", TRUE, [ZeroResponse EXCEPT !.Stat = "ok"])
  /\ cOut.err = NoErr
  /\ cResult.err = Err("notfound")
  /\ cResult.monitor = ZeroMonitor

\* what the same call does with Debug unset
PlainClient == [client EXCEPT !.Debug = FALSE]

PlainSend == MakeAPICallSend(Verb(cOp), RequestData(cOp), PlainClient, TRUE)

PlainReceive == MakeAPICallReceive(cResp, PlainClient)

\* C18 as the specification states it: with Debug set, a call that would
\* send a request with Debug unset sends it, writes the dump of the request
\* and then the dump of the response, and returns the same error and fills
\* the same Response as with Debug unset.
C18_DebugTransparent ==
  (client.Debug /\ cPhase = "done" /\ PlainSend.sent) =>
     /\ cRequests = 1
     /\ (cResp.net = "ok") => cSink = <<"request", "response">>
     /\ cOut.err = PlainReceive.err
     /\ cOut.r = PlainReceive.r

\* C18 as the code has it: with Debug set, MakeAPICall dumps the request
\* first; when that dump fails it returns the dump's error, sends nothing
\* and writes nothing.  Otherwise the dump of the request is written before
\* the request is sent; after a response whose body can be read the dump of
\* the response is written, and the error returned and the Response filled
\* are those of the same call with Debug unset; a response whose body
\* cannot be read gives the response dump's error where Debug unset gives
\* the read error, and no second dump.
C18_DebugDumps ==
  client.Debug =>
     /\ (cPhase = "sent") => (cRequests = 1 /\ cSink = <<"request">>)
     /\ (cPhase \in {"done", "panicked"} /\ PlainSend.sent) =>
           IF cOut.err = Err("dumprequest")
           THEN cRequests = 0 /\ cSink = <<>> /\ cOut.r = ZeroResponse
           ELSE /\ cRequests = 1
                /\ cOut.r = PlainReceive.r
                /\ cOut.panic = PlainReceive.panic
                /\ (cResp.net = "fail") => (cSink = <<"request">> /\ cOut.err = PlainReceive.err)
                /\ (cResp.net = "ok" /\ ~cResp.readable) =>
                      /\ cSink = <<"request">>
                      /\ cOut.err = Err("dumpresponse")
                      /\ PlainReceive.err = Err("read")
                /\ (cResp.net = "ok" /\ cResp.readable) =>
                      (cSink = <<"request", "response">> /\ cOut.err = PlainReceive.err)
     /\ (cPhase \in {"done", "panicked"} /\ ~PlainSend.sent) => (cRequests = 0 /\ cSink = <<>>)

C18_Witness ==
  /\ client.Debug
  /\ cPhase = "done"
  /\ cOp.name = "GetAccountDetails"
  /\ cRequests = 1
  /\ cResp.body = OkBody
  /\ cResp.status = StatusOK
  /\ cSink = <<"request", "response">>
  /\ cOut.err = NoErr
  /\ cResult.account = 1

\* C20 as the specification states it: a finished PauseMonitor or
\* StartMonitor has sent exactly one request, an editMonitor request, and
\* returns the monitor of the response or the zero Monitor with the error.
C20_ExactlyOneEdit ==
  (cPhase = "done" /\ cOp.name \in {"PauseMonitor", "StartMonitor"}) =>
     /\ cRequests = 1
     /\ cReq.verb = "editMonitor"
     /\ IF cOut.err = NoErr
        THEN cResult.err = NoErr /\ cResult.monitor = cResp.body.r.Monitor
        ELSE cResult.err = cOut.err /\ cResult.monitor = ZeroMonitor

\* C20 as the code has it: PauseMonitor and StartMonitor send at most one request, an
\* editMonitor request that holds the monitor's id as a decimal string,
\* status 0 (pause) or 1 (start), api_key and format, and nothing else; they
\* send none only when the request cannot be built or dumped.  They return
\* the monitor of the response with a nil error, or the zero Monitor with
\* the error of MakeAPICall.
C20_PauseStart ==
  (cPhase # "idle" /\ cOp.name \in {"PauseMonitor", "StartMonitor"}) =>
     /\ cRequests <= 1
     /\ (cRequests = 1) =>
           /\ cReq.method = "POST"
           /\ cReq.path = <<"/v2/", "editMonitor">>
           /\ cReq.body.kind = "object"
           /\ DOMAIN cReq.body.obj = {Txt_id, Txt_status, Txt_api_key, Txt_format}
           /\ cReq.body.obj[Txt_status] = JNum(IF cOp.name = "PauseMonitor" THEN 0 ELSE 1)
           /\ cReq.body.obj[Txt_id] =
                 JStr(CASE IntField(cOp.m, "ID") = SmallInt(0) -> <<"0">>
                        [] IntField(cOp.m, "ID") = SmallInt(7) -> <<"7">>
                        [] IntField(cOp.m, "ID") = SmallInt(677810870) ->
                             <<"6", "7", "7", "8", "1", "0", "8", "7", "0">>
                        [] IntField(cOp.m, "ID") = WideID ->
                             <<"9", "0", "0", "7", "1", "9", "9", "2", "5", "4", "7", "4", "0", "9", "9", "3">>)
     /\ (cRequests = 0) => cOut.err \in {Err("newrequest"), Err("dumprequest")}
     /\ (cPhase = "done") =>
           IF cOut.err = NoErr
           THEN cRequests = 1 /\ cResult.err = NoErr /\ cResult.monitor = cResp.body.r.Monitor
           ELSE cResult.err = cOut.err /\ cResult.monitor = ZeroMonitor

C20_Witness ==
  /\ cPhase = "done"
  /\ cOp.name = "StartMonitor"
  /\ cOp.m = [ZeroMonitor EXCEPT !.ID = 677810870]
  /\ cRequests = 1
  /\ cReq.body.obj[Txt_status] = JNum(1)
  /\ cResp.body = ListBody
  /\ cResult.err = NoErr
  /\ cResult.monitor = [ZeroMonitor EXCEPT !.ID = 677810870]

StoredIDs == {store[k].ID : k \in 1..Len(store)}

\* the backend answered the GetMonitor that has just returned
GetServed == cPhase = "done" /\ cOp.name = "GetMonitor" /\ cResp.net = "ok"

\* C17: against the storing backend a GetMonitor(i) the backend answered
\* returns the monitor with ID i and a nil error exactly when monitor i
\* exists; it does so when CreateMonitor returned i and DeleteMonitor was
\* not called with i since, and it returns an error when DeleteMonitor(i)
\* returned nil, whatever was done to other monitors in between.
C17_GetReflectsStore ==
  /\ sCreated \cap sDeleted \cap StoredIDs = {}
  /\ (sCreated \ sDelCalled) \subseteq StoredIDs
  /\ GetServed =>
       /\ (cOp.id \in StoredIDs) <=> (cResult.err = NoErr)
       /\ (cOp.id \in sCreated \ sDelCalled) => (cResult.err = NoErr /\ cResult.monitor.ID = cOp.id)
       /\ (cResult.err = NoErr) => cResult.monitor.ID = cOp.id
       /\ (cOp.id \in sDeleted) => (cResult.err = Err("notfound") /\ cResult.monitor = ZeroMonitor)

\* a monitor is created, another one is created and deleted, and the first
\* is still returned by GetMonitor
C17_Witness ==
  /\ GetServed
  /\ cOp.id = FirstNewID
  /\ cOp.id \in sCreated \ sDelCalled
  /\ (FirstNewID + 1) \in sCreated \cap sDeleted
  /\ cResult.err = NoErr
  /\ cResult.monitor.ID = FirstNewID

\* GetMonitor of a monitor that was created and then deleted fails
C17_WitnessDeleted ==
  /\ GetServed
  /\ cOp.id \in sCreated \cap sDeleted
  /\ cResult.err = Err("notfound")

\* C19: in the version whose Debug field is a bool, a client with Debug
\* set never hands a request to HTTPClient.Do; MakeAPICall returns nil and
\* leaves the Response as it was given; NewMonitor returns the zero Monitor
\* (ID 0) with a nil error, and the backend holds what it held at the start.
C19_DebugMakesNoCall ==
  client.Debug =>
     /\ cPhase \in {"idle", "done"}
     /\ cRequests = 0
     /\ cReq = NoRequest
     /\ store = eInitial
     /\ nextID = FirstNewID
     /\ (cPhase = "done") =>
           /\ cOut.err = NoErr
           /\ cOut.r = ZeroResponse
           /\ cResult.err = NoErr
           /\ (cOp.name = "NewMonitor") => (cResult.monitor = ZeroMonitor /\ cResult.monitor.ID = 0)

C19_Witness ==
  /\ client.Debug
  /\ cPhase = "done"
  /\ cOp.name = "NewMonitor"
  /\ cOp.m.URL = URL_ab
  /\ cSink = <<"request">>
  /\ cResult.err = NoErr
  /\ cResult.monitor.ID = 0
  /\ Len(store) = 2

\* without Debug the same NewMonitor creates the monitor and returns its ID
C19_WitnessNoDebug ==
  /\ ~client.Debug
  /\ cPhase = "done"
  /\ cOp.name = "NewMonitor"
  /\ cResult.err = NoErr
  /\ cResult.monitor.ID = FirstNewID
  /\ Len(store) = Len(eInitial) + 1

\* the page response pLog[i] was a success: MakeAPICall returned nil and
\* the response carried no error
PageSuccess(i) == pLog[i].callErr = NoErr /\ pLog[i].answer = "page"

\* the offsets of the page requests made so far, the one in flight included
RequestedOffsets ==
  LoggedOffsets \o (IF pPhase = "sent" THEN <<ReqOffset(pReq)>> ELSE <<>>)

\* C21: after a successful page response with pagination (returnedOffset,
\* total) AllMonitors returns with a nil error when
\* returnedOffset + 50 + 50 >= total, and otherwise its next request asks
\* for offset returnedOffset + 50 with limit 50, whatever the totals of
\* earlier responses were; a first response with total 0 ends AllMonitors
\* after that one request, with the monitors of that response.
C21_ContinuationRule ==
  \A i \in 1..Len(pLog) :
     PageSuccess(i) =>
        IF pLog[i].meta.Offset + 50 + 50 >= pLog[i].meta.Total
        THEN Len(pLog) = i /\ pPhase = "done" /\ pErr = NoErr
             /\ (i = 1 /\ pLog[i].meta.Total = 0 => pMonitors = pLog[i].monitors)
        ELSE IF i < Len(pLog)
        THEN pLog[i + 1].offset = pLog[i].meta.Offset + 50 /\ pLog[i + 1].limit = 50
        ELSE pPhase = "sent" /\ ReqOffset(pReq) = pLog[i].meta.Offset + 50 /\ ReqLimit(pReq) = 50

\* the first response reports total 250, the second total 101 with offset
\* 50: AllMonitors stops on the second total
C21_Witness ==
  /\ Len(pLog) = 2
  /\ PageSuccess(1) /\ PageSuccess(2)
  /\ pLog[1].meta = [Offset |-> 100, Limit |-> 50, Total |-> 250]
  /\ pLog[2].offset = 150
  /\ pLog[2].meta = [Offset |-> 50, Limit |-> 50, Total |-> 101]
  /\ pPhase = "done"
  /\ pErr = NoErr

LargestTotal ==
  IF Len(pLog) = 0 THEN 0
  ELSE CHOOSE t \in {pLog[i].meta.Total : i \in 1..Len(pLog)} :
         \A i \in 1..Len(pLog) : pLog[i].meta.Total <= t

\* C22: whatever offsets the backend returns, the offsets AllMonitors
\* requests are strictly increasing from one request to the next, and it
\* makes no more requests than there are pages of 50 in the largest total
\* the backend reported.
C22_OffsetsIncrease ==
  /\ \A i \in 1..(Len(RequestedOffsets) - 1) : RequestedOffsets[i] < RequestedOffsets[i + 1]
  /\ (Len(pLog) > 0) => Len(RequestedOffsets) <= PagesNeeded(LargestTotal)

RECURSIVE Received(_)
\* the monitor lists of the page responses of log for which MakeAPICall
\* returned nil, concatenated in the order of the requests
Received(log) ==
  IF Len(log) = 0 THEN <<>>
  ELSE Received(SubSeq(log, 1, Len(log) - 1))
       \o (IF log[Len(log)].callErr = NoErr THEN log[Len(log)].monitors ELSE <<>>)

\* C23: when a page request goes out, after each page response and at
\* return, the accumulated result is the concatenation, in the order of the
\* requests, of the monitor lists of the page responses received so far for
\* which MakeAPICall returned nil.
C23_ResultIsConcatenation ==
  /\ (pPhase # "idle") => pMonitors = Received(pLog)
  /\ \A i \in 1..Len(pLog) : pLog[i].before = Received(SubSeq(pLog, 1, i - 1))

C23_Witness ==
  /\ pPhase = "done"
  /\ Len(pLog) = 3
  /\ PageSuccess(1) /\ PageSuccess(2)
  /\ pLog[3].answer = "apifail"
  /\ \A i \in 1..3 : Len(pLog[i].monitors) = 2
  /\ pMonitors = pLog[1].monitors \o pLog[2].monitors

\* C24: AllMonitors has at most one page request inside HTTPClient.Do; a
\* request for a further page is in flight only after every earlier request
\* was answered, the latest successfully, and it asks for the offset read
\* from that latest response.
C24_OneRequestOutstanding ==
  /\ pInFlight \in {0, 1}
  /\ (pInFlight = 1) <=> (pPhase = "sent")
  /\ (pPhase = "sent" /\ Len(pLog) > 0) =>
        /\ \A i \in 1..Len(pLog) : PageSuccess(i)
        /\ ReqOffset(pReq) = pLog[Len(pLog)].meta.Offset + PageLimit

C24_Witness ==
  /\ pPhase = "sent"
  /\ pInFlight = 1
  /\ Len(pLog) = 2
  /\ pLog[2].meta.Offset = 100
  /\ ReqOffset(pReq) = 150

\* C28 as the specification states it: request data that is not empty and
\* not a JSON object makes MakeAPICall return an error, with no request made
\* and nothing written to the debug sink; SearchMonitors gets there with a
\* search string that holds a double quote, and EnsureMonitor then returns
\* the error without creating.
C28_NonObjectDataRejected ==
  (cPhase # "idle" /\ RequestData(cOp).kind \in {"invalid", "null"}) =>
     /\ cPhase = "done"
     /\ cOut.err # NoErr
     /\ cRequests = 0
     /\ cSink = <<>>
     /\ (cOp.name = "SearchMonitors") =>
           /\ cResult.err = cOut.err
           /\ ~EnsureAfterSearch(cResult.monitors, cResult.err).create
           /\ EnsureAfterSearch(cResult.monitors, cResult.err).err = cOut.err

\* the part of C28 the code keeps: data that is not JSON at all
C28_InvalidDataRejected ==
  (cPhase # "idle" /\ RequestData(cOp).kind = "invalid") =>
     /\ cPhase = "done"
     /\ cOut.err = Err("decorate")
     /\ cRequests = 0
     /\ cSink = <<>>
     /\ (cOp.name = "SearchMonitors") =>
           /\ cResult.err = cOut.err
           /\ ~EnsureAfterSearch(cResult.monitors, cResult.err).create

ZeroOnError == {"GetAccountDetails", "GetMonitor", "CreateMonitor", "PauseMonitor", "StartMonitor"}

\* C29: when GetAccountDetails, GetMonitor, CreateMonitor, PauseMonitor or
\* StartMonitor returns a non-nil error, the value returned with it is the
\* zero Account, the zero Monitor or ID 0, whatever MakeAPICall decoded into
\* the Response; and EnsureMonitor, handed the error of its SearchMonitors
\* or of its CreateMonitor, returns ID 0 with that error.
C29_ZeroValueOnError ==
  (cPhase = "done" /\ cResult.err # NoErr) =>
     /\ (cOp.name \in ZeroOnError) =>
           (cResult.account = 0 /\ cResult.monitor = ZeroMonitor /\ cResult.id = 0)
     /\ (cOp.name = "SearchMonitors") =>
           EnsureAfterSearch(cResult.monitors, cResult.err) = Decision(FALSE, SmallInt(0), cResult.err)
     /\ (cOp.name = "CreateMonitor") =>
           EnsureAfterCreate(IntField(cOut.r.Monitor, "ID"), cResult.err) = [id |-> 0, wide |-> <<>>, err |-> cResult.err]

\* a stat "fail" response that carries an account and a monitor
C29_Witness ==
  /\ cPhase = "done"
  /\ cOp.name = "CreateMonitor"
  /\ cResp.body = FailBody
  /\ cOut.r.Monitor.ID = 7
  /\ cOut.r.Account = 1
  /\ cResult.err = APIErr("e1")
  /\ cResult.id = 0

\* C30: when UnmarshalJSON returns an error its target is as it was before
\* the call; when it returns nil the target is what the payload decodes to
\* on a zero Monitor, so every field the payload lacks is zero.
C30_AllOrNothing ==
  (kPhase \in {"decoded", "parsed"}) =>
     IF kOut.err # NoErr THEN kOut.m = kTarget
     ELSE /\ kOut.m = UnmarshalJSON(kWire, ZeroMonitor).m
          /\ ~Has(kWire.obj, Txt_id) => IntField(kOut.m, "ID") = SmallInt(0)
          /\ ~Has(kWire.obj, Txt_friendly_name) => kOut.m.FriendlyName = <<>>
          /\ ~Has(kWire.obj, Txt_url) => kOut.m.URL = <<>>
          /\ ~Has(kWire.obj, Txt_type) => IntField(kOut.m, "Type") = SmallInt(0)
          /\ ~Has(kWire.obj, Txt_sub_type) => IntField(kOut.m, "SubType") = SmallInt(0)
          /\ ~Has(kWire.obj, Txt_keyword_type) => IntField(kOut.m, "KeywordType") = SmallInt(0)
          /\ ~Has(kWire.obj, Txt_port) => IntField(kOut.m, "Port") = SmallInt(0)
          /\ ~Has(kWire.obj, Txt_keyword_value) => kOut.m.KeywordValue = <<>>
          /\ ~Has(kWire.obj, Txt_alert_contacts) => kOut.m.AlertContacts = <<>>
          /\ ~Has(kWire.obj, Txt_status) => IntField(kOut.m, "Status") = SmallInt(0)

\* a payload without port and alert_contacts decoded on a target that has
\* alert contacts
C30_Witness ==
  /\ kPhase = "parsed"
  /\ kOut.err = NoErr
  /\ kForms.port = "absent"
  /\ kTarget.AlertContacts = << <<"8">> >>
  /\ kTarget.ID = 9
  /\ kOut.m.AlertContacts = <<>>
  /\ kOut.m.Port = 0
  /\ kOut.m.ID = 7

\* a failing decode leaves a non-zero target alone
C30_WitnessError ==
  /\ kPhase = "parsed"
  /\ kOut.err # NoErr
  /\ kTarget.ID = 9
  /\ kOut.m = kTarget

\* a page request failed: MakeAPICall returned an error, or the response
\* carried an error object
ChanFailure ==
  \E i \in 1..Len(gLog) :
     MakeAPICallFormReceive(gLog[i]).err # NoErr \/ MakeAPICallFormReceive(gLog[i]).r.Error # "none"

\* the error of the failing page request
ChanError ==
  LET rcv == MakeAPICallFormReceive(gLog[Len(gLog)])
  IN IF rcv.err # NoErr THEN rcv.err ELSE ResponseErr(rcv.r.Error)

RECURSIVE Fetched(_)
\* the monitors of the pages MakeAPICall fetched, in order
Fetched(log) ==
  IF Len(log) = 0 THEN <<>>
  ELSE Fetched(SubSeq(log, 1, Len(log) - 1))
       \o (IF MakeAPICallFormReceive(log[Len(log)]).err = NoErr
           THEN MakeAPICallFormReceive(log[Len(log)]).r.Monitors ELSE <<>>)

\* the goroutine of GetMonitorsChan waits for a response the model does
\* not give
AtPageBound == gPc = "call" /\ Len(gLog) = MaxPages

\* MakeAPICall panicked on the response to a page request
ChanPanic == \E i \in 1..Len(gLog) : MakeAPICallFormReceive(gLog[i]).panic

\* C25: in the monitors command, under every interleaving: when a page
\* request did not succeed (MakeAPICall returned an error or panicked, or the
\* page carried an error object) the command does not return normally, and
\* when it ends in log.Fatal it reports the error of that request; when the
\* command returns normally every monitor of every fetched page was printed,
\* in order; and as long as the process runs some goroutine can take a
\* step.
C25_CommandOutcome ==
  (gConsumer = "command") =>
     /\ (ChanFailure \/ ChanPanic) => gMain \notin {"returned", "exited"}
     /\ (gMain \in {"logfatal", "fatal"}) => (ChanFailure /\ gFatal = ChanError)
     /\ (gMain \in {"returned", "exited"}) => (gPrinted = Fetched(gLog) /\ gDelivered = gPrinted)
     /\ gPrinted = SubSeq(Fetched(gLog), 1, Len(gPrinted))
     /\ (Alive /\ ~AtPageBound) => ENABLED ChanNext
     /\ (gMain = "select" /\ gPc = "sendErr") => ENABLED ChanSendError

\* what C25 states, for the page requests on which MakeAPICall returns: a
\* request that returned an error keeps the command from returning and is
\* the error log.Fatal reports, a normal return comes after the last print,
\* and the command returns after a panic only through the close of Monitors
\* that runs while the panic unwinds
CommandOutcomeOfReturnedCalls ==
  (gConsumer = "command") =>
     /\ ChanFailure => gMain \notin {"returned", "exited"}
     /\ (gMain \in {"logfatal", "fatal"}) => (ChanFailure /\ gFatal = ChanError)
     /\ (gMain = "panicked") => (~ChanFailure /\ MakeAPICallFormReceive(gLog[Len(gLog)]).panic)
     /\ (gMain \in {"returned", "exited"}) => (gPrinted = Fetched(gLog) /\ gDelivered = gPrinted)
     /\ (gMain \in {"returned", "exited"} /\ ChanPanic) => gPc = "panicking"
     /\ gPrinted = SubSeq(Fetched(gLog), 1, Len(gPrinted))
     /\ (Alive /\ ~AtPageBound) => ENABLED ChanNext
     /\ (gMain = "select" /\ gPc = "sendErr") => ENABLED ChanSendError
     /\ (gMain = "logfatal") => ENABLED LogFatal

\* C26: for a consumer that keeps receiving from Monitors, the goroutine
\* of GetMonitorsChan eventually closes Monitors (or the process has
\* exited, or the goroutine is still fetching pages at the bound of the
\* model).
C26_GoroutineFinishes == <>(MonitorsClosed(gPc) \/ ~Alive \/ AtPageBound)

\* C27: when GetMonitorsChan's goroutine has returned and no request
\* failed, the monitors delivered on Monitors are the slice GetMonitors
\* returns for the same responses, GetMonitors has used every one of these
\* responses and asks for no further page, and both requested the same
\* offsets, each with limit 50; before that, what was delivered and requested
\* is a prefix of what GetMonitors returns and requests.  The goroutine
\* panics on exactly the responses GetMonitors panics on.
C27_ChanEqualsSlice ==
  LET slice == GetMonitorsSlice(gLog)
  IN (gPc # "idle" /\ ~ChanFailure) =>
        /\ gOffsets = SubSeq(slice.offsets, 1, Len(gOffsets))
        /\ gDelivered = SubSeq(slice.monitors, 1, Len(gDelivered))
        /\ (gPc = "call") => FormOffset(gReq) = gOffsets[Len(gOffsets)]
        /\ (gPc \in {"panicking", "panicked"}) <=> slice.panic
        /\ (gPc = "closed") => ~slice.panic
        /\ (gPc = "closed") =>
              /\ ~slice.waiting
              /\ slice.err = NoErr
              /\ slice.used = Len(gLog)
              /\ gOffsets = slice.offsets
              /\ gDelivered = slice.monitors

C27_Witness ==
  /\ gPc = "closed"
  /\ ~ChanFailure
  /\ Len(gLog) = 3
  /\ gOffsets = <<0, 150, 100>>
  /\ Len(gDelivered) = 4
  /\ gDelivered = GetMonitorsSlice(gLog).monitors

====
